---- MODULE Spec2Model ----
(***************************************************************************)
(* Event-driven orchestration core of the healthcare sales backend:        *)
(*   - the Helena CRM webhook pipeline      (app/api/v1/helena.py)         *)
(*   - the VAPI voice-callback pipeline     (app/api/v1/callbacks.py)      *)
(*   - the appointment booking API          (app/api/v1/schedule.py)       *)
(*   - the orchestrator and its job queues  (app/jobs/scheduler.py)        *)
(*   - the appointment reminder jobs        (app/jobs/scheduler.py)        *)
(* over the Event / Lead / Call / Appointment stores (app/models).         *)
(*                                                                         *)
(* Every database transaction (everything up to a db.commit()) is one      *)
(* atomic step; requests and workers run in separate processes and         *)
(* interleave between their transactions (PostgreSQL, READ COMMITTED).     *)
(* Sessions are created with autoflush=False and the default               *)
(* expire_on_commit, so an ORM object is re-read after each commit.        *)
(***************************************************************************)
EXTENDS Integers, Sequences, FiniteSets, Bags, TLC

(***************************************************************************)
(* Bounds of the model.                                                    *)
(***************************************************************************)
MaxWebhooks == 2      \* concurrent CRM webhook requests
MaxCallbacks == 2     \* concurrent voice-callback requests
MaxBookings == 1      \* appointment booking requests
MaxRuns == 3          \* process_orchestration_event invocations
MaxMixedRuns == 2     \* runs when all three pipelines feed the orchestrator
MaxPhrases == 2       \* phrases of a transcript text

\* None for a nullable id column or an absent id argument.
NoId == 0
\* None for a nullable string (str(None) inside an f-string).
NoStr == "None"
\* None for an optional datetime
NoDate == -1

(***************************************************************************)
(* Enumerations (values as in the source).                                 *)
(***************************************************************************)
EventStatus == {"pending", "processing", "completed", "failed", "skipped"}

LeadStage == {"new", "contacted", "qualified", "booked", "confirmed",
              "showed", "no_show", "converted", "lost"}

LeadSource == {"organic", "paid_ads", "social_media", "referral", "direct",
               "other"}

\* event_mapping of process_helena_event
HelenaEventMapping == {"lead_created", "lead_updated", "lead_stage_changed",
                       "lead_tag_added", "message_received", "message_sent",
                       "message_delivered", "message_read"}

HelenaLeadEvents == {"lead_created", "lead_updated", "lead_stage_changed",
                     "lead_tag_added"}

(***************************************************************************)
(* Sequence helpers.                                                       *)
(***************************************************************************)
Range(s) == {s[i] : i \in 1..Len(s)}

Contains(s, x) == \E i \in 1..Len(s) : s[i] = x

\* .filter_by(...).first() over the set of matching row ids: the first, or NoId
FirstId(ids) ==
    IF ids = {} THEN NoId ELSE CHOOSE i \in ids : \A j \in ids : i <= j

(***************************************************************************)
(* Lead (app/models/lead.py).                                              *)
(***************************************************************************)
has_tag(lead, tag) == Contains(lead.tags, tag)

\* Lead.add_tag on the in-memory object
add_tag(lead, tag) ==
    IF has_tag(lead, tag) THEN lead
    ELSE [lead EXCEPT !.tags = Append(@, tag)]

\* Lead.update_stage (the timestamps it tracks are not modelled)
update_stage(lead, new_stage) == [lead EXCEPT !.stage = new_stage]

is_hot_lead(lead) ==
    \/ lead.classification = "hot"
    \/ has_tag(lead, "urgent")
    \/ has_tag(lead, "high_value")
    \/ (lead.source = "referral" /\ lead.stage = "new")

\* str.lower() for the strings the payloads carry
Lower(str) ==
    IF str = "URGENT" THEN "urgent"
    ELSE IF str \in {"When can I come in", "when can I come in"} THEN "when can i come in"
    ELSE str

(***************************************************************************)
(* What the ORM writes at commit for a loaded Lead: a column is written    *)
(* when the attribute was assigned a value different from the loaded one.  *)
(* tags is a plain JSON column: add_tag assigns a new list only when the   *)
(* loaded list is empty, otherwise it appends in place, which the session  *)
(* does not see.  custom_fields is a plain JSON column too: a new dict is  *)
(* assigned only when the loaded one is empty (helena.py 321-325).         *)
(***************************************************************************)
FlushLead(stored, loaded, mem) ==
    [stored EXCEPT
        !.stage = IF mem.stage # loaded.stage THEN mem.stage ELSE @,
        !.phone = IF mem.phone # loaded.phone THEN mem.phone ELSE @,
        !.email = IF mem.email # loaded.email THEN mem.email ELSE @,
        !.tags  = IF loaded.tags = <<>> /\ mem.tags # <<>> THEN mem.tags ELSE @,
        !.custom_fields = IF loaded.custom_fields = {} /\ mem.custom_fields # {}
                          THEN mem.custom_fields ELSE @]

(***************************************************************************)
(* Event (app/models/event.py).                                            *)
(***************************************************************************)
\* one entry of Event.triggers_actions: {type, data}; absent data keys are NoId
Action(type, lead_id, appointment_id, call_id, message_id) ==
    [type |-> type, lead_id |-> lead_id, appointment_id |-> appointment_id,
     call_id |-> call_id, message_id |-> message_id]

NewEvent(event_type, source, lead_id, appointment_id, correlation_id, idempotency_key, triggers_actions, payload_call_id) ==
    [event_type |-> event_type, status |-> "pending", source |-> source,
     lead_id |-> lead_id, appointment_id |-> appointment_id,
     call_id |-> NoId, message_id |-> NoId,
     payload_call_id |-> payload_call_id,
     processed_at |-> FALSE, failed_at |-> FALSE, retry_count |-> 0,
     error_message |-> FALSE,
     triggers_actions |-> triggers_actions,
     correlation_id |-> correlation_id,
     idempotency_key |-> idempotency_key]

\* Event.create_from_webhook
create_from_webhook(event_type, source, lead_id, idempotency_key) ==
    NewEvent(event_type, source, lead_id, NoId, NoStr, idempotency_key, <<>>, NoId)

\* Event.create_lead_event
create_lead_event(event_type, lead_id, payload_call_id, correlation_id) ==
    NewEvent(event_type, "system", lead_id, NoId, correlation_id, NoStr, <<>>,
             payload_call_id)

add_triggered_action(event, action) ==
    [event EXCEPT !.triggers_actions = Append(@, action)]

mark_processing(event) == [event EXCEPT !.status = "processing"]

mark_completed(event) ==
    [event EXCEPT !.status = "completed", !.processed_at = TRUE]

\* retry_count += 1 is computed from the value the session has loaded
mark_failed(event, loaded_retry_count) ==
    [event EXCEPT !.status = "failed", !.failed_at = TRUE,
                  !.error_message = TRUE,
                  !.retry_count = loaded_retry_count + 1]


(***************************************************************************)
(* CRM webhook payloads (HelenaWebhookPayload with HelenaLeadData or       *)
(* HelenaMessageData in data).  data_ok is whether data parses as the      *)
(* lead/message model.                                                     *)
(***************************************************************************)
HelenaPayload(event_type, key, ts, data_ok, stage, tags) ==
    [event_type |-> event_type, idempotency_key |-> key, timestamp |-> ts,
     helena_lead_id |-> "h1", data_ok |-> data_ok,
     helena_id |-> "h1", phone |-> "p1", stage |-> stage, source |-> NoStr,
     tags |-> tags, email |-> NoStr, custom_fields |-> {},
     helena_message_id |-> "m1", direction |-> "inbound"]

PayloadKeys == {NoStr, "k1"}

\* payload.timestamp in epoch seconds; it only enters the derived key, which
\* the event type already tells apart
PayloadTimestamps == {1}

HelenaPayloads ==
    UNION {
      { HelenaPayload("lead_created", k, t, TRUE, NoStr, <<>>),
        HelenaPayload("lead_created", k, t, TRUE, NoStr, <<"urgent">>),
        HelenaPayload("lead_created", k, t, TRUE, "qualified", <<"urgent">>),
        HelenaPayload("lead_created", k, t, TRUE, "bogus", <<"urgent">>),
        HelenaPayload("lead_created", k, t, FALSE, NoStr, <<>>),
        [HelenaPayload("lead_created", k, t, TRUE, NoStr, <<>>)
            EXCEPT !.source = "referral"],
        HelenaPayload("lead_stage_changed", k, t, TRUE, "qualified", <<>>),
        HelenaPayload("lead_stage_changed", k, t, TRUE, "booked", <<>>),
        HelenaPayload("lead_tag_added", k, t, TRUE, NoStr, <<"urgent">>),
        HelenaPayload("lead_tag_added", k, t, TRUE, NoStr, <<"handoff">>),
        HelenaPayload("message_received", k, t, TRUE, NoStr, <<>>),
        HelenaPayload("lead_deleted", k, t, TRUE, NoStr, <<>>) }
      : k \in PayloadKeys, t \in PayloadTimestamps }

\* the payloads of the concurrent-delivery runs: lead creation with and
\* without the urgent tag and with each kind of stage, an update, a message,
\* an unsupported event type
IngestPayloads ==
    {p \in HelenaPayloads :
        /\ p.data_ok /\ p.source = NoStr
        /\ p.event_type \in {"lead_created", "lead_stage_changed",
                             "message_received", "lead_deleted"}
        /\ (p.event_type = "lead_stage_changed" => p.stage = "booked")}

(***************************************************************************)
(* State.                                                                  *)
(***************************************************************************)
VARIABLES
    leads,         \* leads table: row id = index
    messages,      \* messages table
    calls,         \* calls table
    appointments,  \* appointments table
    events,        \* events table (the Event Log)
    logs,          \* logs table (level, source, correlation id)
    jobs,          \* jobs enqueued on the RQ queues / scheduler (a bag)
    web,           \* helena_webhook requests in flight
    cb,            \* vapi_callback requests in flight
    bk,            \* book_appointment requests
    runs,          \* process_orchestration_event invocations
    failed_transitions, \* history: per Event, changes of the stored status to failed
    dialect,       \* database behind settings.DATABASE_URL
    reminder_jobs, \* reminder jobs held by the rq scheduler (enqueue_at)
    rem,           \* schedule_appointment_reminders invocations
    upd,           \* update_appointment requests
    rq             \* jobs the RQ worker has performed

vars == <<leads, messages, calls, appointments, events, logs, jobs, web, cb,
          bk, runs, failed_transitions, dialect, reminder_jobs, rem, upd, rq>>

\* the state of the appointment reminders and of the RQ worker, untouched by
\* ingestion and orchestration
reminder_vars == <<dialect, reminder_jobs, rem, upd, rq>>

NoLead == [helena_id |-> NoStr, phone |-> NoStr, stage |-> "new",
           classification |-> "warm", source |-> "other", tags |-> <<>>,
           email |-> NoStr, custom_fields |-> {}]

IdleWeb == [pc |-> "idle", payload |-> HelenaPayload(NoStr, NoStr, 0, TRUE, NoStr, <<>>),
            key |-> NoStr, lead_id |-> NoId, has_lead |-> FALSE,
            new_lead |-> FALSE, loaded |-> NoLead, mem |-> NoLead,
            new_message |-> FALSE,
            event_id |-> NoId, status_code |-> 0, message |-> NoStr,
            error |-> NoStr,
            \* what datetime.utcnow() returned to the timestamp's
            \* default_factory, NoDate when the payload carried a timestamp
            utcnow |-> NoDate,
            \* history: the requests already answered when this one arrived
            preceded |-> {}]

CorrelationWeb(r) == "web" \o ToString(r)

Job(queue, func, arg, correlation_id, origin, run, event_id, index) ==
    [queue |-> queue, func |-> func, arg |-> arg,
     correlation_id |-> correlation_id, delay |-> 0,
     \* history fields: who enqueued it
     origin |-> origin, run |-> run, event_id |-> event_id, index |-> index]

Enqueue(bag, job) == bag (+) SetToBag({job})

\* enqueue_orchestration_job
OrchestrationJob(event_id, correlation_id) ==
    Job("high_priority", "process_orchestration_event", event_id,
        correlation_id, "ingest", NoId, event_id, 0)

ErrorLog(source, correlation_id) ==
    [level |-> "error", source |-> source, correlation_id |-> correlation_id]

InfoLog(source, correlation_id) ==
    [level |-> "info", source |-> source, correlation_id |-> correlation_id]

(***************************************************************************)
(* helena_webhook                                                          *)
(***************************************************************************)
\* line 110: the key derived when the payload carries none
DerivedKey(p) ==
    "helena_" \o p.event_type \o "_" \o p.helena_lead_id \o "_"
              \o ToString(p.timestamp)

IdempotencyKey(p) ==
    IF p.idempotency_key = NoStr THEN DerivedKey(p) ELSE p.idempotency_key

\* mutant: events.idempotency_key without the unique index
KeyConflict_NoIndex(evts, key) == FALSE

\* the unique index on events.idempotency_key (NULLs do not conflict)
KeyConflict(evts, key) ==
    key # NoStr /\ \E i \in 1..Len(evts) : evts[i].idempotency_key = key

\* mutant: the duplicate lookup finds nothing
ExistingEvent_Skipped(evts, key) == NoId

\* lines 113-115: db.query(Event).filter_by(idempotency_key=...).first()
ExistingEvent(evts, key) ==
    FirstId({i \in 1..Len(evts) : evts[i].idempotency_key = key})

\* mutant: the except branch answers 500 without writing the error log
HelenaFail_Unlogged(r, error) ==
    /\ logs' = logs
    /\ web' = [web EXCEPT ![r].pc = "done", ![r].status_code = 500,
                          ![r].message = "Failed to process webhook",
                          ![r].error = error]

\* the except branch of helena_webhook (lines 161-182): error log, HTTP 500;
\* error is the exception caught
HelenaFail(r, error) ==
    /\ logs' = logs \cup {ErrorLog("helena_webhook", CorrelationWeb(r))}
    /\ web' = [web EXCEPT ![r].pc = "done", ![r].status_code = 500,
                          ![r].message = "Failed to process webhook",
                          ![r].error = error]

Answered(w) == w.pc \in {"background", "done"}

\* mutant: a delivery whose key is already stored is processed again
HelenaReceive_Reprocess(r, raw) ==
    /\ web[r].pc = "idle"
    /\ \A q \in 1..(r-1) : web[q].pc # "idle"
    /\ web' = [web EXCEPT ![r] =
            [@ EXCEPT !.pc = "resolve", !.payload = raw, !.key = IdempotencyKey(raw),
                      !.preceded = {q \in 1..MaxWebhooks : Answered(web[q])}]]
    /\ UNCHANGED <<leads, messages, calls, appointments, events, logs, jobs,
                   cb, bk, runs, failed_transitions>>
    /\ UNCHANGED reminder_vars

\* the clock readings of the requests, in epoch seconds
ReceiveTimes == {1, 2}

\* datetime.utcnow() as read by request r's validation: not before the
\* readings of the requests that arrived earlier; NoDate when the payload
\* carries its timestamp and the default_factory is not called
UtcNow(r, raw) ==
    IF raw.timestamp # NoDate THEN {NoDate}
    ELSE {t \in ReceiveTimes : \A q \in 1..MaxWebhooks : web[q].utcnow <= t}

\* HelenaWebhookPayload validation (line 62): a missing timestamp is filled
\* by default_factory=datetime.utcnow
ParsedPayload(raw, now) ==
    IF raw.timestamp = NoDate THEN [raw EXCEPT !.timestamp = now] ELSE raw

\* lines 89-123: the request arrives, the key is derived, the duplicate lookup
HelenaReceive(r, raw) ==
    /\ web[r].pc = "idle"
    /\ \A q \in 1..(r-1) : web[q].pc # "idle"
    /\ \E now \in UtcNow(r, raw) :
         LET p == ParsedPayload(raw, now)
             key == IdempotencyKey(p)
             existing == ExistingEvent(events, key)
             before == {q \in 1..MaxWebhooks : Answered(web[q])}
         IN  web' = [web EXCEPT ![r] =
                IF existing # NoId
                THEN [@ EXCEPT !.pc = "done", !.payload = p, !.key = key,
                               !.utcnow = now, !.preceded = before,
                               !.status_code = 200,
                               !.message = "Event already processed",
                               !.event_id = existing]
                ELSE [@ EXCEPT !.pc = "resolve", !.payload = p, !.key = key,
                               !.utcnow = now, !.preceded = before]]
    /\ UNCHANGED <<leads, messages, calls, appointments, events, logs, jobs,
                   cb, bk, runs, failed_transitions>>
    /\ UNCHANGED reminder_vars

\* mutant: the payload's stage is ignored when the Lead is built
CreatedLead_StageIgnored(p) ==
    [helena_id |-> p.helena_id, phone |-> p.phone, stage |-> "new",
     classification |->
        IF \E i \in 1..Len(p.tags) : Lower(p.tags[i]) \in {"urgent", "hot", "high_value"}
        THEN "hot" ELSE "warm",
     source |-> IF p.source # NoStr /\ Lower(p.source) \in LeadSource
                THEN Lower(p.source) ELSE "other",
     tags |-> p.tags, email |-> p.email, custom_fields |-> p.custom_fields]

\* handle_lead_event lines 258-289: the Lead built for an unknown helena_id
CreatedLead(p) ==
    [helena_id |-> p.helena_id, phone |-> p.phone,
     stage |-> IF p.stage # NoStr /\ Lower(p.stage) \in LeadStage
               THEN Lower(p.stage) ELSE "new",
     classification |->
        IF \E i \in 1..Len(p.tags) : Lower(p.tags[i]) \in {"urgent", "hot", "high_value"}
        THEN "hot" ELSE "warm",
     source |-> IF p.source # NoStr /\ Lower(p.source) \in LeadSource
                THEN Lower(p.source) ELSE "other",
     tags |-> p.tags, email |-> p.email, custom_fields |-> p.custom_fields]

RECURSIVE AddTags(_, _)
AddTags(lead, tags) ==
    IF tags = <<>> THEN lead ELSE AddTags(add_tag(lead, Head(tags)), Tail(tags))

\* handle_lead_event lines 294-325: the in-memory update of an existing Lead
UpdatedLead(lead, p) ==
    LET l1 == [lead EXCEPT !.phone = IF p.phone # NoStr THEN p.phone ELSE @,
                           !.email = IF p.email # NoStr THEN p.email ELSE @]
        l2 == IF p.event_type = "lead_stage_changed" /\ p.stage # NoStr
                  /\ Lower(p.stage) \in LeadStage
              THEN update_stage(l1, Lower(p.stage)) ELSE l1
        l3 == IF p.event_type = "lead_tag_added" /\ p.tags # <<>>
              THEN AddTags(l2, p.tags) ELSE l2
    IN  [l3 EXCEPT !.custom_fields = @ \cup p.custom_fields]

\* process_helena_event lines 192-214 with handle_lead_event / handle_message_event
\* up to their db.commit(): validation, the lead query, the in-memory changes
HelenaResolve(r) ==
    /\ web[r].pc = "resolve"
    /\ LET p == web[r].payload
           lid == FirstId({i \in 1..Len(leads) : leads[i].helena_id = p.helena_id})
       IN  IF p.event_type \notin HelenaEventMapping \/ ~p.data_ok
           THEN HelenaFail(r, "ValueError")
           ELSE /\ logs' = logs
                /\ web' = [web EXCEPT ![r] =
                     IF p.event_type \in HelenaLeadEvents
                     THEN IF lid = NoId
                          THEN [@ EXCEPT !.pc = "commit", !.has_lead = TRUE,
                                         !.new_lead = TRUE, !.mem = CreatedLead(p)]
                          ELSE [@ EXCEPT !.pc = "commit", !.has_lead = TRUE,
                                         !.lead_id = lid, !.loaded = leads[lid],
                                         !.mem = IF p.event_type = "lead_created"
                                                 THEN leads[lid]
                                                 ELSE UpdatedLead(leads[lid], p)]
                     ELSE IF lid = NoId
                          THEN [@ EXCEPT !.pc = "persist"]
                          ELSE [@ EXCEPT !.pc = "commit", !.has_lead = TRUE,
                                         !.lead_id = lid, !.loaded = leads[lid],
                                         !.mem = leads[lid],
                                         !.new_message =
                                            /\ p.event_type \in {"message_received", "message_sent"}
                                            /\ FirstId({i \in 1..Len(messages) :
                                                   messages[i].helena_message_id
                                                      = p.helena_message_id}) = NoId]]
    /\ UNCHANGED <<leads, messages, calls, appointments, events, jobs,
                   cb, bk, runs, failed_transitions>>
    /\ UNCHANGED reminder_vars

\* db.commit() of handle_lead_event (line 327) / handle_message_event (line 378);
\* leads.helena_id and messages.helena_message_id are unique
HelenaCommit(r) ==
    /\ web[r].pc = "commit"
    /\ LET p == web[r].payload
           w == web[r]
           lead_dup == w.new_lead /\ \E i \in 1..Len(leads) : leads[i].helena_id = w.mem.helena_id
           msg_dup == w.new_message /\ \E i \in 1..Len(messages) :
                          messages[i].helena_message_id = p.helena_message_id
       IN  IF lead_dup \/ msg_dup
           THEN /\ HelenaFail(r, "IntegrityError")
                /\ UNCHANGED <<leads, messages>>
           ELSE /\ leads' = IF w.new_lead THEN Append(leads, w.mem)
                            ELSE [leads EXCEPT ![w.lead_id] = FlushLead(@, w.loaded, w.mem)]
                /\ messages' = IF w.new_message
                               THEN Append(messages,
                                      [helena_message_id |-> p.helena_message_id,
                                       lead_id |-> w.lead_id,
                                       direction |-> p.direction])
                               ELSE messages
                /\ web' = [web EXCEPT ![r].pc = "persist",
                                      ![r].lead_id = IF w.new_lead THEN Len(leads) + 1 ELSE @]
                /\ logs' = logs
    /\ UNCHANGED <<calls, appointments, events, jobs, cb, bk, runs,
                   failed_transitions>>
    /\ UNCHANGED reminder_vars

\* process_helena_event lines 227-238: the actions derived from the re-read Lead
HelenaTriggers(p, has_lead, lead_id, lead) ==
    IF has_lead /\ p.event_type = "lead_created" /\ is_hot_lead(lead)
    THEN <<Action("initiate_hot_lead_sequence", lead_id, NoId, NoId, NoId)>>
    ELSE IF has_lead /\ p.event_type = "lead_tag_added" /\ has_tag(lead, "handoff")
    THEN <<Action("trigger_handoff", lead_id, NoId, NoId, NoId)>>
    ELSE IF has_lead /\ p.event_type = "lead_stage_changed" /\ lead.stage = "booked"
    THEN <<Action("schedule_appointment_reminders", lead_id, NoId, NoId, NoId)>>
    ELSE IF p.event_type = "message_received"
    THEN <<Action("process_inbound_message", IF has_lead THEN lead_id ELSE NoId,
                   NoId, NoId, NoId)>>
    ELSE <<>>

\* process_helena_event lines 216-243 and helena_webhook lines 125-157: the Event
\* is built and committed (unique idempotency_key), the response is made
HelenaPersist(r) ==
    /\ web[r].pc = "persist"
    /\ LET w == web[r]
           p == w.payload
           lead == IF w.has_lead THEN leads[w.lead_id] ELSE NoLead
           event == [create_from_webhook(p.event_type, "helena",
                                         IF w.has_lead THEN w.lead_id ELSE NoId, w.key)
                       EXCEPT !.correlation_id = CorrelationWeb(r),
                              !.triggers_actions = HelenaTriggers(p, w.has_lead, w.lead_id, lead)]
       IN  IF KeyConflict(events, w.key)
           THEN /\ HelenaFail(r, "IntegrityError: idempotency_key")
                /\ UNCHANGED <<events, failed_transitions>>
           ELSE /\ events' = Append(events, event)
                /\ failed_transitions' = Append(failed_transitions, 0)
                /\ logs' = logs \cup {InfoLog("helena", CorrelationWeb(r))}
                /\ web' = [web EXCEPT ![r].pc = "background",
                                      ![r].event_id = Len(events) + 1,
                                      ![r].status_code = 200,
                                      ![r].message = "Webhook processed successfully"]
    /\ UNCHANGED <<leads, messages, calls, appointments, jobs, cb, bk, runs>>
    /\ UNCHANGED reminder_vars

\* the background task of lines 129-133: enqueue_orchestration_job
HelenaBackground(r) ==
    /\ web[r].pc = "background"
    /\ jobs' = Enqueue(jobs, OrchestrationJob(web[r].event_id, CorrelationWeb(r)))
    /\ web' = [web EXCEPT ![r].pc = "done"]
    /\ UNCHANGED <<leads, messages, calls, appointments, events, logs, cb, bk,
                   runs, failed_transitions>>
    /\ UNCHANGED reminder_vars

HelenaStep(r, payloads) ==
    \/ \E p \in payloads : HelenaReceive(r, p)
    \/ HelenaResolve(r)
    \/ HelenaCommit(r)
    \/ HelenaPersist(r)
    \/ HelenaBackground(r)

(***************************************************************************)
(* Voice callback payloads (VAPIWebhookPayload / VAPICallData).            *)
(* function_calls: sequence of [name, result], result = the result dict is *)
(* non-empty.  transcript: NoTranscript, or the keyword lists its lowered  *)
(* text matches together with its sentiment.  metadata: data.metadata is a *)
(* non-empty dict.                                                         *)
(***************************************************************************)
NoTranscript == [present |-> FALSE, keywords |-> {}, sentiment |-> NoStr]

Transcript(keywords, sentiment) ==
    [present |-> TRUE, keywords |-> keywords, sentiment |-> sentiment]

VapiPayload(event_type, phone_number, function_calls, transcript, duration, metadata) ==
    [event_type |-> event_type, call_id |-> "v1", phone_number |-> phone_number,
     function_calls |-> function_calls, transcript |-> transcript,
     duration |-> duration, metadata |-> metadata]

BookingCall == [name |-> "book_appointment", result |-> TRUE]

\* determine_call_outcome, lines 364-386: the keyword lists as written
appointment_keywords ==
    {"book appointment", "schedule appointment", "yes, book it",
     "when can I come in", "what times are available"}

callback_keywords == {"call me back", "call later", "better time", "not now"}

interest_keywords == {"interested", "tell me more", "sounds good", "yes"}

not_interested_keywords == {"not interested", "no thank you", "remove me", "don't call"}

\* a transcript text is the set of phrases said; the strings contained in a
\* phrase, as far as the keyword lists can tell them apart
PhraseParts(phrase) ==
    {phrase} \cup (IF phrase = "not interested" THEN {"interested"} ELSE {})

\* line 361: transcript.text.lower()
transcript_lower(text) == UNION {PhraseParts(Lower(phrase)) : phrase \in text}

\* any(keyword in transcript_lower for keyword in keywords)
AnyKeyword(keywords, text) == keywords \cap transcript_lower(text) # {}

\* the keyword lists the lowered text matches
MatchedKeywords(text) ==
    {k \in {"appointment", "callback", "not_interested", "interest"} :
        \/ k = "appointment" /\ AnyKeyword(appointment_keywords, text)
        \/ k = "callback" /\ AnyKeyword(callback_keywords, text)
        \/ k = "not_interested" /\ AnyKeyword(not_interested_keywords, text)
        \/ k = "interest" /\ AnyKeyword(interest_keywords, text)}

\* a VAPITranscript given by its text
TranscriptText(text, sentiment) ==
    [present |-> TRUE, keywords |-> MatchedKeywords(text), sentiment |-> sentiment,
     text |-> text]

VapiPayloads ==
    UNION {
      { VapiPayload("call-ended", ph, <<BookingCall>>, NoTranscript, 60, FALSE),
        VapiPayload("call-ended", ph, <<>>, Transcript({"callback"}, NoStr), 60, FALSE),
        VapiPayload("call-ended", ph, <<>>, Transcript({"not_interested", "interest"}, NoStr), 60, FALSE),
        VapiPayload("call-ended", ph, <<>>, NoTranscript, 60, FALSE),
        VapiPayload("call-ended", ph, <<>>, NoTranscript, 60, TRUE),
        VapiPayload("call-started", ph, <<>>, NoTranscript, 0, FALSE),
        VapiPayload("call-ringing", ph, <<>>, NoTranscript, 0, FALSE) }
      : ph \in {NoStr, "p1"} }

\* determine_call_outcome: the first decisive function call, if any
RECURSIVE FunctionCallOutcome(_)
FunctionCallOutcome(function_calls) ==
    IF function_calls = <<>> THEN NoStr
    ELSE LET f == Head(function_calls)
         IN  IF f.name = "book_appointment" /\ f.result THEN "appointment_booked"
             ELSE IF f.name = "schedule_callback" /\ f.result THEN "callback_requested"
             ELSE FunctionCallOutcome(Tail(function_calls))

\* determine_call_outcome: the transcript analysis
TranscriptOutcome(t) ==
    IF ~t.present THEN NoStr
    ELSE IF "appointment" \in t.keywords THEN "appointment_booked"
    ELSE IF "callback" \in t.keywords THEN "callback_requested"
    ELSE IF "not_interested" \in t.keywords THEN "not_interested"
    ELSE IF "interest" \in t.keywords THEN "interested"
    ELSE IF t.sentiment = "negative" THEN "not_interested"
    ELSE IF t.sentiment = "positive" THEN "interested"
    ELSE NoStr

determine_call_outcome(d) ==
    IF FunctionCallOutcome(d.function_calls) # NoStr
    THEN FunctionCallOutcome(d.function_calls)
    ELSE IF TranscriptOutcome(d.transcript) # NoStr
    THEN TranscriptOutcome(d.transcript)
    ELSE IF d.duration \notin {NoDate, 0} /\ d.duration < 10 THEN "no_answer"
    ELSE "successful"

(***************************************************************************)
(* vapi_callback                                                           *)
(***************************************************************************)
NoCall == [vapi_call_id |-> NoStr, lead_id |-> NoId, status |-> "queued",
           outcome |-> NoStr, outcome_updates |-> 0]

IdleCb == [pc |-> "idle",
           payload |-> VapiPayload(NoStr, NoStr, <<>>, NoTranscript, 0, FALSE),
           call_id |-> NoId, lead_id |-> NoId, loaded |-> NoCall,
           event_id |-> NoId, status_code |-> 0, error |-> NoStr,
           \* history: the requests already answered when this one arrived
           preceded |-> {}]

CorrelationCb(c) == "cb" \o ToString(c)

\* Call.mark_completed
call_mark_completed(call, outcome) ==
    [call EXCEPT !.status = "completed",
                 !.outcome = IF outcome # NoStr THEN outcome ELSE @]

\* update_call_from_vapi_event lines 302-313: the in-memory status change
UpdatedCall(call, p) ==
    IF p.event_type = "call-started" THEN [call EXCEPT !.status = "initiated"]
    ELSE IF p.event_type = "call-ringing" THEN [call EXCEPT !.status = "ringing"]
    ELSE IF p.event_type = "call-answered" THEN [call EXCEPT !.status = "answered"]
    ELSE IF p.event_type = "call-ended"
    THEN call_mark_completed(call, determine_call_outcome(p))
    ELSE IF p.event_type = "call-failed" THEN [call EXCEPT !.status = "failed"]
    ELSE call

\* what the commit writes for a loaded Call; completed_at is a new timestamp
\* on every mark_completed, so each call-ended commit updates the row
FlushCall(stored, loaded, mem, p) ==
    [stored EXCEPT
        !.status = IF mem.status # loaded.status THEN mem.status ELSE @,
        !.outcome = IF mem.outcome # loaded.outcome THEN mem.outcome ELSE @,
        !.outcome_updates = IF p.event_type = "call-ended" THEN @ + 1 ELSE @]

CbAnswered(c) == c.pc \in {"background", "done"}

\* the except branch of vapi_callback (lines 223-244): error log, HTTP 500
VapiFail(c, error) ==
    /\ logs' = logs \cup {ErrorLog("vapi_callback", CorrelationCb(c))}
    /\ cb' = [cb EXCEPT ![c].pc = "done", ![c].status_code = 500,
                        ![c].error = error]

\* mutant: the Lead is looked up without the phone number
LeadByPhone_Any(ls, phone_number) == FirstId(1..Len(ls))

\* lines 124-125: the Lead of the payload's phone number, when it has one
LeadByPhone(ls, phone_number) ==
    IF phone_number = NoStr THEN NoId
    ELSE FirstId({i \in 1..Len(ls) : ls[i].phone = phone_number})

\* lines 120-139: the Call is looked up by vapi_call_id, else the Lead by phone
VapiReceive(c, p) ==
    /\ cb[c].pc = "idle"
    /\ \A q \in 1..(c-1) : cb[q].pc # "idle"
    /\ LET cid == FirstId({i \in 1..Len(calls) : calls[i].vapi_call_id = p.call_id})
           lid == LeadByPhone(leads, p.phone_number)
           before == {q \in 1..MaxCallbacks : CbAnswered(cb[q])}
       IN  cb' = [cb EXCEPT ![c] =
                IF cid # NoId
                THEN [@ EXCEPT !.pc = "update", !.payload = p, !.call_id = cid,
                               !.loaded = calls[cid], !.preceded = before]
                ELSE IF lid # NoId
                THEN [@ EXCEPT !.pc = "create", !.payload = p, !.lead_id = lid,
                               !.preceded = before]
                ELSE [@ EXCEPT !.pc = "done", !.payload = p, !.status_code = 404,
                               !.preceded = before]]
    /\ UNCHANGED <<leads, messages, calls, appointments, events, logs, jobs,
                   web, bk, runs, failed_transitions>>
    /\ UNCHANGED reminder_vars

\* create_call_from_vapi_data (lines 247-264); calls.vapi_call_id is unique
VapiCreate(c) ==
    /\ cb[c].pc = "create"
    /\ LET p == cb[c].payload
       IN  IF \E i \in 1..Len(calls) : calls[i].vapi_call_id = p.call_id
           THEN /\ VapiFail(c, "IntegrityError")
                /\ calls' = calls
           ELSE /\ calls' = Append(calls, [NoCall EXCEPT !.vapi_call_id = p.call_id,
                                                         !.lead_id = cb[c].lead_id])
                /\ cb' = [cb EXCEPT ![c].pc = "load", ![c].call_id = Len(calls) + 1]
                /\ logs' = logs
    /\ UNCHANGED <<leads, messages, appointments, events, jobs, web, bk, runs,
                   failed_transitions>>
    /\ UNCHANGED reminder_vars

\* the created Call is expired by its commit and re-read at line 276
VapiLoad(c) ==
    /\ cb[c].pc = "load"
    /\ cb' = [cb EXCEPT ![c].pc = "update", ![c].loaded = calls[cb[c].call_id]]
    /\ UNCHANGED <<leads, messages, calls, appointments, events, logs, jobs,
                   web, bk, runs, failed_transitions>>
    /\ UNCHANGED reminder_vars

\* update_call_from_vapi_event (lines 267-343).  With a non-empty
\* data.metadata line 339 raises (call.metadata is not the call_metadata
\* column); the commit of the except branch then flushes the changes made.
VapiUpdate(c) ==
    /\ cb[c].pc = "update"
    /\ LET p == cb[c].payload
           cid == cb[c].call_id
           mem == UpdatedCall(cb[c].loaded, p)
       IN  /\ calls' = [calls EXCEPT ![cid] = FlushCall(@, cb[c].loaded, mem, p)]
           /\ IF p.metadata
              THEN VapiFail(c, "AttributeError")
              ELSE /\ cb' = [cb EXCEPT ![c].pc = "persist"]
                   /\ logs' = logs
    /\ UNCHANGED <<leads, messages, appointments, events, jobs, web, bk, runs,
                   failed_transitions>>
    /\ UNCHANGED reminder_vars

\* event_type_mapping of vapi_callback (lines 145-150)
VapiEventType(event_type) ==
    IF event_type = "call-started" THEN "call_initiated"
    ELSE IF event_type = "call-answered" THEN "call_answered"
    ELSE IF event_type = "call-ended" THEN "call_completed"
    ELSE IF event_type = "call-failed" THEN "call_failed"
    ELSE NoStr

\* lines 166-182: the actions attached for the outcome of the re-read Call
VapiTriggers(p, call, call_id) ==
    IF p.event_type = "call-ended" /\ call.outcome = "appointment_booked"
    THEN <<Action("process_appointment_booking", call.lead_id, NoId, call_id, NoId)>>
    ELSE IF p.event_type = "call-ended" /\ call.outcome = "callback_requested"
    THEN <<Action("schedule_callback", call.lead_id, NoId, call_id, NoId)>>
    ELSE IF p.event_type = "call-ended" /\ call.outcome = "not_interested"
    THEN <<Action("update_lead_classification", call.lead_id, NoId, NoId, NoId)>>
    ELSE <<>>

\* lines 144-219: the Event (no duplicate lookup, no idempotency key, call_id
\* only inside the payload) and the api-call log are committed
VapiPersist(c) ==
    /\ cb[c].pc = "persist"
    /\ LET p == cb[c].payload
           cid == cb[c].call_id
           call == calls[cid]
           event == [create_lead_event(VapiEventType(p.event_type), call.lead_id,
                                       cid, CorrelationCb(c))
                       EXCEPT !.triggers_actions = VapiTriggers(p, call, cid)]
       IN  IF VapiEventType(p.event_type) # NoStr
           THEN /\ events' = Append(events, event)
                /\ failed_transitions' = Append(failed_transitions, 0)
                /\ cb' = [cb EXCEPT ![c].pc = "background", ![c].status_code = 200,
                                    ![c].event_id = Len(events) + 1]
           ELSE /\ UNCHANGED <<events, failed_transitions>>
                /\ cb' = [cb EXCEPT ![c].pc = "done", ![c].status_code = 200]
    /\ logs' = logs \cup {InfoLog("vapi_callback", CorrelationCb(c))}
    /\ UNCHANGED <<leads, messages, calls, appointments, jobs, web, bk, runs>>
    /\ UNCHANGED reminder_vars

\* the background task of lines 187-191; event.id was read before the Event
\* was flushed (autoflush is off), so the job carries no event id
VapiBackground(c) ==
    /\ cb[c].pc = "background"
    /\ jobs' = Enqueue(jobs, [OrchestrationJob(NoId, CorrelationCb(c))
                                EXCEPT !.event_id = cb[c].event_id])
    /\ cb' = [cb EXCEPT ![c].pc = "done"]
    /\ UNCHANGED <<leads, messages, calls, appointments, events, logs, web, bk,
                   runs, failed_transitions>>
    /\ UNCHANGED reminder_vars

VapiStepOf(c, payloads) ==
    \/ \E p \in payloads : VapiReceive(c, p)
    \/ VapiCreate(c)
    \/ VapiLoad(c)
    \/ VapiUpdate(c)
    \/ VapiPersist(c)
    \/ VapiBackground(c)

VapiStep(c) == VapiStepOf(c, VapiPayloads)

(***************************************************************************)
(* book_appointment (app/api/v1/schedule.py)                               *)
(***************************************************************************)
\* datetime.utcnow() at validation; scheduled dates are offsets around it
BookingNow == 0

\* aware: the scheduled_date string carries a UTC offset ("...Z"), so the
\* parsed datetime is timezone-aware
BookingRequest(lead_id, scheduled_date, ninsaude_ok) ==
    [lead_id |-> lead_id, professional_id |-> "d1",
     scheduled_date |-> scheduled_date, ninsaude_ok |-> ninsaude_ok,
     aware |-> FALSE]

BookingRequests ==
    { BookingRequest(l, d, ok) :
        l \in 1..2, d \in BookingNow..(BookingNow + 1), ok \in BOOLEAN }

IdleBk == [pc |-> "idle", request |-> BookingRequest(NoId, 0, TRUE),
           appointment_id |-> NoId, event_id |-> NoId, status_code |-> 0]

\* BookingRequest.validate_future_date
validate_future_date(v) == ~(v <= BookingNow)

\* line 55 compares the parsed date with the naive datetime.utcnow(): for an
\* aware date the comparison raises TypeError, which the validation does not
\* turn into a validation error (only ValueError and AssertionError are)
ValidationRaises(req) == req.aware

\* lines 206-210: an appointment already holds the slot
SlotTaken(req) ==
    \E i \in 1..Len(appointments) :
        /\ appointments[i].scheduled_date = req.scheduled_date
        /\ appointments[i].professional_id = req.professional_id
        /\ appointments[i].status \in {"scheduled", "confirmed"}

\* lines 179-347, for a caller holding create_appointments: one transaction;
\* the Event is committed together with the Appointment, and no orchestration
\* job is enqueued for it
BookAppointment(b, req) ==
    /\ bk[b].pc = "idle"
    /\ \A q \in 1..(b-1) : bk[q].pc # "idle"
    /\ LET aid == Len(appointments) + 1
           event == [create_lead_event("appointment_booked", req.lead_id, NoId, NoStr)
                       EXCEPT !.appointment_id = aid,
                              !.triggers_actions =
                                 <<Action("send_booking_confirmation", req.lead_id, aid, NoId, NoId),
                                   Action("schedule_reminders", NoId, aid, NoId, NoId)>>]
           Reject(code) ==
               /\ bk' = [bk EXCEPT ![b] = [@ EXCEPT !.pc = "done", !.request = req,
                                                    !.status_code = code]]
               /\ UNCHANGED <<appointments, events, failed_transitions>>
       IN  IF ValidationRaises(req)
           THEN Reject(500) /\ logs' = logs
           ELSE IF ~validate_future_date(req.scheduled_date)
           THEN Reject(422) /\ logs' = logs
           ELSE IF req.lead_id \notin 1..Len(leads)
           THEN Reject(404) /\ logs' = logs
           ELSE IF SlotTaken(req)
           THEN Reject(409) /\ logs' = logs
           ELSE IF ~req.ninsaude_ok
           THEN Reject(500) /\ logs' = logs \cup {ErrorLog("scheduling_api", NoStr)}
           ELSE /\ appointments' = Append(appointments,
                       [lead_id |-> req.lead_id,
                        scheduled_date |-> req.scheduled_date,
                        professional_id |-> req.professional_id,
                        status |-> "scheduled",
                        reminder_sent_24h |-> FALSE,
                        reminder_sent_3h |-> FALSE,
                        confirmation_sent |-> FALSE])
                /\ events' = Append(events, event)
                /\ failed_transitions' = Append(failed_transitions, 0)
                /\ logs' = logs \cup {InfoLog("scheduling_api", NoStr)}
                /\ bk' = [bk EXCEPT ![b] = [@ EXCEPT !.pc = "done", !.request = req,
                                                     !.appointment_id = aid,
                                                     !.event_id = Len(events) + 1,
                                                     !.status_code = 200]]
    /\ UNCHANGED <<leads, messages, calls, jobs, web, cb, runs>>
    /\ UNCHANGED reminder_vars

(***************************************************************************)
(* process_orchestration_event (app/jobs/scheduler.py)                     *)
(***************************************************************************)
IdleRun == [pc |-> "idle", event_id |-> NoId, correlation_id |-> NoStr,
            retry_count |-> 0, status |-> NoStr, actions_triggered |-> <<>>,
            \* history: enqueue failures caught by execute_triggered_action
            failures |-> 0]

\* scheduler.enqueue_at(now + hours, ...)
ScheduledJob(func, arg, correlation_id, hours, run, event_id, index) ==
    [Job("scheduled", func, arg, correlation_id, "handler", run, event_id, index)
        EXCEPT !.delay = hours]

HandlerJob(queue, func, arg, correlation_id, run, event_id, index) ==
    Job(queue, func, arg, correlation_id, "handler", run, event_id, index)

\* handle_lead_created
handle_lead_created(event, corr, w, eid) ==
    IF event.lead_id \notin 1..Len(leads) THEN <<>>
    ELSE IF is_hot_lead(leads[event.lead_id])
    THEN <<HandlerJob("high_priority", "initiate_hot_lead_call", event.lead_id, corr, w, eid, 1),
           HandlerJob("high_priority", "send_welcome_whatsapp", event.lead_id, corr, w, eid, 2)>>
    ELSE <<ScheduledJob("initiate_lead_follow_up", event.lead_id, corr, 2, w, eid, 1)>>

\* handle_lead_stage_changed
handle_lead_stage_changed(event, corr, w, eid) ==
    IF event.lead_id \notin 1..Len(leads) THEN <<>>
    ELSE IF leads[event.lead_id].stage = "qualified"
    THEN <<HandlerJob("default", "send_booking_whatsapp", event.lead_id, corr, w, eid, 1)>>
    ELSE IF leads[event.lead_id].stage = "booked"
    THEN <<HandlerJob("default", "schedule_appointment_reminders",
                      event.appointment_id, NoStr, w, eid, 1)>>
    ELSE <<>>

\* handle_lead_tag_added: the jobs
handle_lead_tag_added(event, corr, w, eid) ==
    IF event.lead_id \notin 1..Len(leads) THEN <<>>
    ELSE LET lead == leads[event.lead_id]
             handoff == IF has_tag(lead, "handoff")
                        THEN <<HandlerJob("high_priority", "trigger_agent_handoff",
                                          event.lead_id, corr, w, eid, 1)>>
                        ELSE <<>>
         IN  IF has_tag(lead, "urgent") /\ ~has_tag(lead, "contacted_urgent")
             THEN Append(handoff,
                         HandlerJob("high_priority", "initiate_urgent_call",
                                    event.lead_id, corr, w, eid, Len(handoff) + 1))
             ELSE handoff

\* handle_message_received
handle_message_received(event, corr, w, eid) ==
    IF event.lead_id \notin 1..Len(leads) THEN <<>>
    ELSE <<HandlerJob("default", "process_inbound_message", event.message_id,
                      corr, w, eid, 1)>>

\* handle_call_completed: the Call is looked up by Event.call_id
handle_call_completed(event, corr, w, eid) ==
    IF event.call_id \notin 1..Len(calls) THEN <<>>
    ELSE LET call == calls[event.call_id]
         IN  IF call.outcome = "appointment_booked"
             THEN <<HandlerJob("default", "process_call_appointment_booking",
                               event.call_id, corr, w, eid, 1)>>
             ELSE IF call.outcome = "callback_requested"
             THEN <<ScheduledJob("initiate_callback", call.lead_id, corr, 24, w, eid, 1)>>
             ELSE IF call.outcome = "not_interested"
             THEN <<HandlerJob("default", "update_lead_classification",
                               call.lead_id, corr, w, eid, 1)>>
             ELSE <<>>

\* handle_appointment_booked: the job
handle_appointment_booked(event, corr, w, eid) ==
    IF event.appointment_id \notin 1..Len(appointments) THEN <<>>
    ELSE <<HandlerJob("default", "send_booking_confirmation",
                      event.appointment_id, corr, w, eid, 1)>>

\* handle_appointment_no_show
handle_appointment_no_show(event, corr, w, eid) ==
    IF event.appointment_id \notin 1..Len(appointments) THEN <<>>
    ELSE <<HandlerJob("default", "trigger_no_show_reactivation",
                      event.appointment_id, corr, w, eid, 1)>>

\* mutant: a type without a branch is handled as lead_created
HandlerJobs_Default(event, corr, w, eid) == handle_lead_created(event, corr, w, eid)

\* lines 74-108: the dispatch on event_type
HandlerJobs(event, corr, w, eid) ==
    IF event.event_type = "lead_created" THEN handle_lead_created(event, corr, w, eid)
    ELSE IF event.event_type = "lead_stage_changed"
    THEN handle_lead_stage_changed(event, corr, w, eid)
    ELSE IF event.event_type = "lead_tag_added"
    THEN handle_lead_tag_added(event, corr, w, eid)
    ELSE IF event.event_type = "message_received"
    THEN handle_message_received(event, corr, w, eid)
    ELSE IF event.event_type = "call_completed"
    THEN handle_call_completed(event, corr, w, eid)
    ELSE IF event.event_type = "appointment_booked"
    THEN handle_appointment_booked(event, corr, w, eid)
    ELSE IF event.event_type = "appointment_no_show"
    THEN handle_appointment_no_show(event, corr, w, eid)
    ELSE <<>>

\* the Lead a handler changes and commits: handle_lead_tag_added lines 294-295,
\* handle_appointment_booked lines 405-408; NoId when the handler commits nothing
HandlerLead(event) ==
    IF /\ event.event_type = "lead_tag_added"
       /\ event.lead_id \in 1..Len(leads)
       /\ has_tag(leads[event.lead_id], "urgent")
       /\ ~has_tag(leads[event.lead_id], "contacted_urgent")
    THEN event.lead_id
    ELSE IF /\ event.event_type = "appointment_booked"
            /\ event.appointment_id \in 1..Len(appointments)
    THEN appointments[event.appointment_id].lead_id
    ELSE NoId

HandlerLeadChange(event, lead) ==
    IF event.event_type = "lead_tag_added" THEN add_tag(lead, "contacted_urgent")
    ELSE update_stage(lead, "booked")

\* mutant: only the first branch of execute_triggered_action dispatches
KnownActions_FirstOnly == {"initiate_hot_lead_sequence"}

\* the action types execute_triggered_action knows
KnownActions == {"initiate_hot_lead_sequence", "trigger_handoff",
                 "schedule_appointment_reminders", "process_inbound_message"}

\* execute_triggered_action: the job enqueued for a known action type
ActionJob(action, corr, w, eid, i) ==
    IF action.type = "initiate_hot_lead_sequence"
    THEN Job("high_priority", "initiate_hot_lead_call", action.lead_id, corr,
             "action", w, eid, i)
    ELSE IF action.type = "trigger_handoff"
    THEN Job("high_priority", "trigger_agent_handoff", action.lead_id, corr,
             "action", w, eid, i)
    ELSE IF action.type = "schedule_appointment_reminders"
    THEN Job("default", "schedule_appointment_reminders", action.appointment_id,
             NoStr, "action", w, eid, i)
    ELSE Job("default", "process_inbound_message", action.message_id, corr,
             "action", w, eid, i)

RECURSIVE EnqueueAll(_, _)
EnqueueAll(bag, js) ==
    IF js = <<>> THEN bag ELSE EnqueueAll(Enqueue(bag, Head(js)), Tail(js))

JobNames(js) == [i \in 1..Len(js) |-> js[i].func]

\* lines 62-70: the Event is loaded, marked processing and committed.  For an
\* unknown id line 66 raises, and the except branch raises again on
\* event.mark_failed (event is None), before anything is logged.
ProcessStart(w, eid) ==
    /\ runs[w].pc = "idle"
    /\ \A q \in 1..(w-1) : runs[q].pc # "idle"
    /\ IF eid \in 1..Len(events)
       THEN /\ events' = [events EXCEPT ![eid] = mark_processing(@)]
            /\ runs' = [runs EXCEPT ![w] =
                    [@ EXCEPT !.pc = "handler", !.event_id = eid,
                              !.correlation_id = events[eid].correlation_id,
                              !.retry_count = events[eid].retry_count]]
       ELSE /\ events' = events
            /\ runs' = [runs EXCEPT ![w] =
                    [@ EXCEPT !.pc = "done", !.event_id = eid, !.status = "raised"]]
    /\ UNCHANGED <<leads, messages, calls, appointments, logs, jobs, web, cb, bk,
                   failed_transitions>>
    /\ UNCHANGED reminder_vars

\* lines 72-108 and, when an enqueue raises, the except branch (lines 135-152).
\* k = 0: every enqueue of the handler succeeds; k > 0: the k-th raises.
ProcessHandler(w) ==
    /\ runs[w].pc = "handler"
    /\ LET eid == runs[w].event_id
           event == events[eid]
           corr == runs[w].correlation_id
           js == HandlerJobs(event, corr, w, eid)
           lid == HandlerLead(event)
       IN  \E k \in 0..Len(js) :
             IF k = 0
             THEN /\ jobs' = EnqueueAll(jobs, js)
                  /\ leads' = IF lid = NoId THEN leads
                              ELSE [leads EXCEPT ![lid] =
                                      FlushLead(@, @, HandlerLeadChange(event, @))]
                  /\ runs' = [runs EXCEPT ![w] =
                          [@ EXCEPT !.pc = "actions",
                                    !.actions_triggered = JobNames(js),
                                    !.retry_count = IF lid = NoId THEN @
                                                   ELSE event.retry_count]]
                  /\ UNCHANGED <<events, logs, failed_transitions>>
             ELSE /\ jobs' = EnqueueAll(jobs, SubSeq(js, 1, k - 1))
                  /\ events' = [events EXCEPT ![eid] = mark_failed(@, runs[w].retry_count)]
                  /\ failed_transitions' =
                        [failed_transitions EXCEPT ![eid] =
                            IF event.status # "failed" THEN @ + 1 ELSE @]
                  /\ logs' = logs \cup {ErrorLog("orchestrator", NoStr)}
                  /\ runs' = [runs EXCEPT ![w] =
                          [@ EXCEPT !.pc = "done", !.status = "error"]]
                  /\ leads' = leads
    /\ UNCHANGED <<messages, calls, appointments, web, cb, bk>>
    /\ UNCHANGED reminder_vars

\* lines 110-131: every entry of triggers_actions is executed (an unknown type
\* is skipped, a failing enqueue is caught), then mark_completed and the job
\* log are committed.  F: the entries whose enqueue raises.
ProcessActions(w) ==
    /\ runs[w].pc = "actions"
    /\ LET eid == runs[w].event_id
           event == events[eid]
           corr == runs[w].correlation_id
           acts == event.triggers_actions
           known == {i \in 1..Len(acts) : acts[i].type \in KnownActions}
       IN  \E F \in SUBSET known :
             LET done == SelectSeq([i \in 1..Len(acts) |->
                                      [i |-> i, ok |-> i \in known \ F,
                                       reported |-> i \in known]],
                                   LAMBDA x : x.reported)
                 js == [n \in 1..Len(SelectSeq(done, LAMBDA x : x.ok)) |->
                          LET i == SelectSeq(done, LAMBDA x : x.ok)[n].i
                          IN  ActionJob(acts[i], corr, w, eid, i)]
             IN  /\ jobs' = EnqueueAll(jobs, js)
                 /\ events' = [events EXCEPT ![eid] = mark_completed(@)]
                 /\ logs' = logs \cup {InfoLog("orchestrator", corr)}
                 /\ runs' = [runs EXCEPT ![w] =
                         [@ EXCEPT !.pc = "done", !.status = "success",
                                   !.failures = Cardinality(F),
                                   !.actions_triggered =
                                       @ \o [n \in 1..Len(done) |-> acts[done[n].i].type]]]
    /\ UNCHANGED <<leads, messages, calls, appointments, web, cb, bk,
                   failed_transitions>>
    /\ UNCHANGED reminder_vars

ProcessStep(w) ==
    \/ \E eid \in 0..Len(events) : ProcessStart(w, eid)
    \/ ProcessHandler(w)
    \/ ProcessActions(w)

(***************************************************************************)
(* Appointment reminders: update_appointment (app/api/v1/schedule.py),     *)
(* schedule_appointment_reminders and send_appointment_reminder            *)
(* (app/jobs/scheduler.py).  Times are hours after BookingNow.             *)
(***************************************************************************)
MaxReminderRuns == 2  \* schedule_appointment_reminders invocations
MaxUpdates == 1       \* update_appointment requests

\* the engines of app/core/database.py: PostgreSQL (the configured default),
\* SQLite for the tests
Dialects == {"postgresql", "sqlite"}

\* appointments.scheduled_date is DateTime(timezone=True): PostgreSQL returns
\* an aware datetime, SQLite a naive one
ColumnIsAware == dialect = "postgresql"

\* Appointment.confirm
confirm(appointment) ==
    [appointment EXCEPT !.status = "confirmed", !.confirmation_sent = TRUE]

\* Appointment.mark_reminded
mark_reminded(appointment, reminder_type) ==
    [appointment EXCEPT
        !.status = "reminded",
        !.reminder_sent_24h = IF reminder_type = "24h" THEN TRUE ELSE @,
        !.reminder_sent_3h = IF reminder_type = "3h" THEN TRUE ELSE @]

\* Appointment.cancel
cancel(appointment) == [appointment EXCEPT !.status = "cancelled"]

\* Appointment.reschedule
reschedule(appointment, new_date) ==
    [appointment EXCEPT !.status = "rescheduled", !.scheduled_date = new_date,
                        !.reminder_sent_24h = FALSE, !.reminder_sent_3h = FALSE,
                        !.confirmation_sent = FALSE]

\* scheduled dates and clock readings around the two reminder offsets
ReminderDates == {3, 4, 24, 25, 30}

ReminderNows == {0, 1, 6, 27, 31}

ReminderRequests == {BookingRequest(1, d, TRUE) : d \in ReminderDates}

\* the CRM webhook that creates the Lead the appointments belong to
ReminderLeadPayloads ==
    {HelenaPayload("lead_created", NoStr, t, TRUE, NoStr, <<>>) : t \in PayloadTimestamps}

\* AppointmentUpdate
AppointmentUpdate(status, scheduled_date, ninsaude_ok) ==
    [status |-> status, scheduled_date |-> scheduled_date, ninsaude_ok |-> ninsaude_ok]

AppointmentUpdates ==
    {AppointmentUpdate(s, NoDate, ok) : s \in {"confirmed", "cancelled"}, ok \in BOOLEAN}
    \cup {AppointmentUpdate(NoStr, d, TRUE) : d \in ReminderDates}

IdleUpd == [pc |-> "idle", appointment_id |-> NoId,
            update |-> AppointmentUpdate(NoStr, NoDate, TRUE), status_code |-> 0,
            \* history: the reminder jobs of the appointment that were scheduled
            \* when this request cancelled or rescheduled it
            stale_jobs |-> {}]

IdleRem == [pc |-> "idle", appointment_id |-> NoId, now |-> 0,
            scheduled_date |-> NoDate, status |-> NoStr, error |-> NoStr,
            \* history: the reminder jobs this invocation scheduled
            scheduled |-> {}]

\* scheduler.enqueue_at(run_at, send_appointment_reminder, appointment_id,
\* reminder_type, channel); run is the invocation that scheduled it
ReminderJob(appointment_id, reminder_type, channel, run_at, run) ==
    [func |-> "send_appointment_reminder", appointment_id |-> appointment_id,
     reminder_type |-> reminder_type, channel |-> channel, run_at |-> run_at,
     correlation_id |-> NoStr, run |-> run]

\* event_type_mapping of update_appointment
AppointmentEventType(status) ==
    IF status = "confirmed" THEN "appointment_confirmed"
    ELSE IF status = "cancelled" THEN "appointment_cancelled"
    ELSE NoStr

\* update_appointment, for a caller holding edit_appointments: one transaction
\* (status change with its Event, then the reschedule); a failing Ninsaude
\* call rolls everything back
UpdateAppointment(u, aid, update) ==
    /\ upd[u].pc = "idle"
    /\ \A q \in 1..(u-1) : upd[q].pc # "idle"
    /\ IF aid \notin 1..Len(appointments)
       THEN /\ upd' = [upd EXCEPT ![u] = [@ EXCEPT !.pc = "done", !.appointment_id = aid,
                                                   !.update = update, !.status_code = 404]]
            /\ UNCHANGED <<appointments, events, failed_transitions>>
       ELSE IF ~update.ninsaude_ok
       THEN /\ upd' = [upd EXCEPT ![u] = [@ EXCEPT !.pc = "done", !.appointment_id = aid,
                                                   !.update = update, !.status_code = 500]]
            /\ UNCHANGED <<appointments, events, failed_transitions>>
       ELSE LET old == appointments[aid]
                a1 == IF update.status = "confirmed" THEN confirm(old)
                      ELSE IF update.status = "cancelled" THEN cancel(old)
                      ELSE old
                a2 == IF update.scheduled_date # NoDate
                         /\ update.scheduled_date # a1.scheduled_date
                      THEN reschedule(a1, update.scheduled_date) ELSE a1
                event == [create_lead_event(AppointmentEventType(update.status),
                                            old.lead_id, NoId, NoStr)
                            EXCEPT !.appointment_id = aid]
                status_changed == update.status # NoStr /\ old.status # update.status
            IN  /\ appointments' = [appointments EXCEPT ![aid] = a2]
                /\ events' = IF status_changed THEN Append(events, event) ELSE events
                /\ failed_transitions' = IF status_changed
                                         THEN Append(failed_transitions, 0)
                                         ELSE failed_transitions
                /\ upd' = [upd EXCEPT ![u] = [@ EXCEPT !.pc = "done", !.appointment_id = aid,
                                                       !.update = update, !.status_code = 200,
                                                       !.stale_jobs =
                                                          IF a2.status \in {"cancelled", "rescheduled"}
                                                          THEN {j \in reminder_jobs : j.appointment_id = aid}
                                                          ELSE {}]]
    /\ UNCHANGED <<leads, messages, calls, logs, jobs, web, cb, bk, runs,
                   dialect, reminder_jobs, rem, rq>>

\* the reminders schedule_appointment_reminders schedules at clock reading now
\* for scheduled date d (lines 545-567)
RemindersToSchedule(appointment_id, d, now, run) ==
    (IF d - 24 > now
     THEN {ReminderJob(appointment_id, "24h", "whatsapp", d - 24, run)} ELSE {})
    \cup
    (IF d - 3 > now
     THEN {ReminderJob(appointment_id, "3h", "voice", d - 3, run)} ELSE {})

\* schedule_appointment_reminders(appointment_id), run by a worker at clock
\* reading now.  now is datetime.utcnow(), a naive datetime: comparing it with
\* an aware scheduled_date raises TypeError (line 547), which the function
\* catches and reports.
ScheduleReminders(n, aid, now) ==
    /\ rem[n].pc = "idle"
    /\ \A q \in 1..(n-1) : rem[q].pc # "idle"
    /\ IF aid \notin 1..Len(appointments)
       THEN /\ rem' = [rem EXCEPT ![n] = [@ EXCEPT !.pc = "done", !.appointment_id = aid,
                                                   !.now = now, !.status = "error",
                                                   !.error = "ValueError"]]
            /\ reminder_jobs' = reminder_jobs
       ELSE IF ColumnIsAware
       THEN /\ rem' = [rem EXCEPT ![n] = [@ EXCEPT !.pc = "done", !.appointment_id = aid,
                                                   !.now = now,
                                                   !.scheduled_date = appointments[aid].scheduled_date,
                                                   !.status = "error",
                                                   !.error = "TypeError"]]
            /\ reminder_jobs' = reminder_jobs
       ELSE /\ rem' = [rem EXCEPT ![n] = [@ EXCEPT !.pc = "done", !.appointment_id = aid,
                                                   !.now = now,
                                                   !.scheduled_date = appointments[aid].scheduled_date,
                                                   !.status = "success",
                                                   !.scheduled =
                                                      RemindersToSchedule(aid,
                                                         appointments[aid].scheduled_date, now, n)]]
            /\ reminder_jobs' = reminder_jobs \cup
                  RemindersToSchedule(aid, appointments[aid].scheduled_date, now, n)
    /\ UNCHANGED <<leads, messages, calls, appointments, events, logs, jobs, web,
                   cb, bk, runs, failed_transitions, dialect, upd, rq>>

\* send_appointment_reminder(appointment_id, reminder_type, channel), run when
\* the scheduler releases job j
SendReminder(j) ==
    /\ j \in reminder_jobs
    /\ reminder_jobs' = reminder_jobs \ {j}
    /\ appointments' =
          IF j.appointment_id \in 1..Len(appointments)
          THEN [appointments EXCEPT ![j.appointment_id] = mark_reminded(@, j.reminder_type)]
          ELSE appointments
    /\ UNCHANGED <<leads, messages, calls, events, logs, jobs, web, cb, bk, runs,
                   failed_transitions, dialect, rem, upd, rq>>

(***************************************************************************)
(* The RQ worker (app/workers/rq_worker.py) performing enqueued jobs.      *)
(***************************************************************************)
MaxPerforms == 3      \* jobs the worker performs

\* core/config.py line 61
MAX_JOB_RETRIES == 3

\* the keyword arguments an enqueue call leaves for the job function: RQ takes
\* its own options (job_timeout, retry, ...) out of the call and hands every
\* other keyword to the function.  enqueue_orchestration_job passes
\* retry_count=settings.MAX_JOB_RETRIES (lines 36-41); the handlers' and
\* actions' enqueue calls pass job_timeout only.
EnqueueKwargs(func) ==
    IF func = "process_orchestration_event" THEN {"retry_count"} ELSE {}

\* retry=Retry(max=...) is the option by which RQ retries a job that raised;
\* no enqueue call passes it, so a job has no retries
JobRetries(func) == 0

\* the keyword parameters of the job functions (lines 55, 484)
Parameters(func) ==
    IF func = "process_orchestration_event" THEN {"event_id", "correlation_id"}
    ELSE {"lead_id", "correlation_id"}

\* mutant: the voice service's answer is awaited
initiate_call_Awaited(phone_number) == "dict"

\* VAPIService.initiate_call is a coroutine function (vapi_service.py line
\* 70); initiate_hot_lead_call calls it without await (line 495), so what it
\* gets is the coroutine object and no request is sent
initiate_call(phone_number) == "coroutine"

IdlePerform == [pc |-> "idle", func |-> NoStr, arg |-> NoId,
                correlation_id |-> NoStr, kwargs |-> {}, max_retries |-> 0,
                attempts |-> 0, status |-> NoStr, result |-> NoStr,
                exc |-> NoStr, voice_failed |-> FALSE]

\* the Call record of lines 511-518
OutreachCall(vapi_call_id, lead_id) ==
    [NoCall EXCEPT !.vapi_call_id = vapi_call_id, !.lead_id = lead_id,
                   !.status = "initiated"]

\* the worker takes job j from its queue and performs it once:
\* func(*args, **kwargs).  A call that raises makes the job failed (it has no
\* retries left); a call that returns makes it finished.
WorkerPerform(d, j) ==
    /\ rq[d].pc = "idle"
    /\ \A q \in 1..(d-1) : rq[q].pc # "idle"
    /\ j \in BagToSet(jobs)
    /\ j.func \in {"process_orchestration_event", "initiate_hot_lead_call"}
    /\ jobs' = jobs (-) SetToBag({j})
    /\ LET kwargs == EnqueueKwargs(j.func)
           job == [IdlePerform EXCEPT !.pc = "done", !.func = j.func,
                                      !.arg = j.arg,
                                      !.correlation_id = j.correlation_id,
                                      !.kwargs = kwargs,
                                      !.max_retries = JobRetries(j.func),
                                      !.attempts = 1]
       IN  IF ~(kwargs \subseteq Parameters(j.func))
           THEN \* the call itself raises: unexpected keyword argument
                /\ rq' = [rq EXCEPT ![d] =
                            [job EXCEPT !.status = "failed", !.exc = "TypeError"]]
                /\ UNCHANGED <<leads, calls>>
           ELSE \* initiate_hot_lead_call, lines 484-532
                IF j.arg \notin 1..Len(leads)
                THEN \* line 490 raises, line 527 catches
                     /\ rq' = [rq EXCEPT ![d] =
                                 [job EXCEPT !.status = "finished", !.result = "error",
                                             !.exc = "ValueError"]]
                     /\ UNCHANGED <<leads, calls>>
                ELSE IF initiate_call(leads[j.arg].phone) = "coroutine"
                THEN \* line 510: call_result.get raises, line 527 catches
                     /\ rq' = [rq EXCEPT ![d] =
                                 [job EXCEPT !.status = "finished", !.result = "error",
                                             !.exc = "AttributeError",
                                             !.voice_failed = TRUE]]
                     /\ UNCHANGED <<leads, calls>>
                ELSE \* lines 509-525
                     /\ calls' = Append(calls,
                                   OutreachCall("out" \o ToString(Len(calls) + 1), j.arg))
                     /\ leads' = [leads EXCEPT ![j.arg] =
                                   IF @.stage = "new"
                                   THEN FlushLead(@, @, update_stage(@, "contacted"))
                                   ELSE @]
                     /\ rq' = [rq EXCEPT ![d] =
                                 [job EXCEPT !.status = "finished", !.result = "success"]]
    /\ UNCHANGED <<messages, appointments, events, logs, web, cb, bk, runs,
                   failed_transitions, dialect, reminder_jobs, rem, upd>>

(***************************************************************************)
(* Events that carry a list of actions (Event.create_orchestration_event). *)
(***************************************************************************)
MaxOrchestrationEvents == 1   \* Events stored by create_orchestration_event

\* Event.create_orchestration_event, lines 149-162
create_orchestration_event(event_type, lead_id, triggers_actions, correlation_id) ==
    NewEvent(event_type, "orchestrator", lead_id, NoId, correlation_id, NoStr,
             triggers_actions, NoId)

\* event types given to it: types without a handler, and lead_created
OrchestrationEventTypes ==
    {"lead_updated", "call_initiated", "lead_created"}

\* lists of actions given to it: entries execute_triggered_action dispatches
\* and entries of a type it does not know, in either order
ActionLists ==
    LET hot == Action("initiate_hot_lead_sequence", NoId, NoId, NoId, NoId)
        handoff == Action("trigger_handoff", NoId, NoId, NoId, NoId)
        unknown == Action("send_booking_confirmation", NoId, NoId, NoId, NoId)
    IN  {<<unknown>>, <<unknown, hot>>, <<hot, unknown, handoff>>}

\* an Event built by create_orchestration_event is added and committed
CreateOrchestrationEvent(event_type, lead_id, triggers_actions) ==
    /\ Cardinality({i \in 1..Len(events) : events[i].source = "orchestrator"})
          < MaxOrchestrationEvents
    /\ events' = Append(events,
                   create_orchestration_event(event_type, lead_id, triggers_actions, NoStr))
    /\ failed_transitions' = Append(failed_transitions, 0)
    /\ UNCHANGED <<leads, messages, calls, appointments, logs, jobs, web, cb, bk, runs>>
    /\ UNCHANGED reminder_vars

(***************************************************************************)
(* Specifications.                                                         *)
(***************************************************************************)
InitDialect(d) ==
    /\ leads = <<>>
    /\ messages = <<>>
    /\ calls = <<>>
    /\ appointments = <<>>
    /\ events = <<>>
    /\ logs = {}
    /\ jobs = EmptyBag
    /\ web = [r \in 1..MaxWebhooks |-> IdleWeb]
    /\ cb = [c \in 1..MaxCallbacks |-> IdleCb]
    /\ bk = [b \in 1..MaxBookings |-> IdleBk]
    /\ runs = [w \in 1..MaxRuns |-> IdleRun]
    /\ failed_transitions = <<>>
    /\ dialect = d
    /\ reminder_jobs = {}
    /\ rem = [n \in 1..MaxReminderRuns |-> IdleRem]
    /\ upd = [u \in 1..MaxUpdates |-> IdleUpd]
    /\ rq = [x \in 1..MaxPerforms |-> IdlePerform]

\* the deployment as configured: DATABASE_URL names a PostgreSQL database
Init == InitDialect("postgresql")

\* concurrent CRM webhook deliveries
NextIngest == \E r \in 1..MaxWebhooks : HelenaStep(r, IngestPayloads)

SpecIngest == Init /\ [][NextIngest]_vars

\* one CRM webhook (it creates the Lead) and concurrent voice callbacks
NextVoice ==
    \/ HelenaStep(1, HelenaPayloads)
    \/ \E c \in 1..MaxCallbacks : VapiStep(c)

SpecVoice == Init /\ [][NextVoice]_vars

\* one CRM webhook and the orchestrator's runs, interleaved
NextOrch ==
    \/ HelenaStep(1, HelenaPayloads)
    \/ \E w \in 1..MaxRuns : ProcessStep(w)

SpecOrch == Init /\ [][NextOrch]_vars

\* the three ingestion pipelines, one request each, and one orchestrator run
\* at a time
Quiet ==
    /\ \A r \in 1..MaxWebhooks : web[r].pc \in {"idle", "done"}
    /\ \A c \in 1..MaxCallbacks : cb[c].pc \in {"idle", "done"}
    /\ \A w \in 1..MaxRuns : runs[w].pc \in {"idle", "done"}

Next ==
    \/ (web[1].pc # "idle" \/ Quiet) /\ HelenaStep(1, HelenaPayloads)
    \/ (cb[1].pc # "idle" \/ Quiet) /\ VapiStep(1)
    \/ Quiet /\ \E req \in BookingRequests : BookAppointment(1, req)
    \/ \E w \in 1..MaxMixedRuns : (runs[w].pc # "idle" \/ Quiet) /\ ProcessStep(w)

Spec == Init /\ [][Next]_vars


\* stage changes delivered by the CRM
StagePayloads == {p \in HelenaPayloads : p.event_type = "lead_stage_changed"}

\* concurrent lead_stage_changed deliveries and the orchestrator's runs
NextStage ==
    \/ \E r \in 1..MaxWebhooks : HelenaStep(r, StagePayloads)
    \/ \E w \in 1..MaxMixedRuns : ProcessStep(w)

SpecStage == Init /\ [][NextStage]_vars

\* an appointment is booked for a Lead, updated, and the reminder jobs run;
\* on either database engine
InitReminders == \E d \in Dialects : InitDialect(d)

NextReminders ==
    \/ HelenaStep(1, ReminderLeadPayloads)
    \/ \E req \in ReminderRequests : BookAppointment(1, req)
    \/ \E u \in 1..MaxUpdates, aid \in 1..MaxBookings, update \in AppointmentUpdates :
          UpdateAppointment(u, aid, update)
    \/ \E n \in 1..MaxReminderRuns, aid \in 1..MaxBookings, now \in ReminderNows :
          ScheduleReminders(n, aid, now)
    \/ \E j \in reminder_jobs : SendReminder(j)

SpecReminders == InitReminders /\ [][NextReminders]_vars

\* leads delivered by the CRM, hot ones among them
DispatchPayloads ==
    {p \in HelenaPayloads : p.event_type = "lead_created" /\ p.data_ok
                            /\ p.idempotency_key = NoStr /\ p.source = NoStr
                            /\ p.stage = NoStr}

\* a Lead is created, its Event is processed and the worker performs the jobs
NextDispatch ==
    \/ HelenaStep(1, DispatchPayloads)
    \/ \E w \in 1..MaxMixedRuns : ProcessStep(w)
    \/ \E d \in 1..MaxPerforms : \E j \in BagToSet(jobs) : WorkerPerform(d, j)

SpecDispatch == Init /\ [][NextDispatch]_vars

\* deliveries that create a Lead: a hot lead_created and a lead_updated
ActionPayloads ==
    {HelenaPayload("lead_created", NoStr, t, TRUE, NoStr, <<"urgent">>) : t \in PayloadTimestamps}
    \cup {HelenaPayload("lead_updated", NoStr, t, TRUE, NoStr, <<>>) : t \in PayloadTimestamps}

\* Events of the CRM and Events carrying action lists are processed, one
\* request or run at a time
NextActions ==
    \/ (web[1].pc # "idle" \/ Quiet) /\ HelenaStep(1, ActionPayloads)
    \/ Quiet /\ \E event_type \in OrchestrationEventTypes, triggers_actions \in ActionLists :
                    CreateOrchestrationEvent(event_type, NoId, triggers_actions)
    \/ \E w \in 1..MaxMixedRuns : (runs[w].pc # "idle" \/ Quiet) /\ ProcessStep(w)

SpecActions == Init /\ [][NextActions]_vars

\* update deliveries for a stored Lead: fields present and absent
UpdatePayloads ==
    {[HelenaPayload("lead_updated", NoStr, 1, TRUE, NoStr, <<>>)
         EXCEPT !.custom_fields = {"a"}],
     [HelenaPayload("lead_updated", "k1", 1, TRUE, NoStr, <<>>)
         EXCEPT !.custom_fields = {"b"}, !.email = "e2", !.phone = NoStr],
     HelenaPayload("lead_stage_changed", NoStr, 1, TRUE, "qualified", <<>>),
     HelenaPayload("lead_tag_added", NoStr, 1, TRUE, NoStr, <<"urgent">>)}

\* a Lead the CRM created earlier is stored
InitUpdate ==
    /\ leads = <<[CreatedLead(HelenaPayload("lead_created", NoStr, 1, TRUE, NoStr, <<>>))
                    EXCEPT !.email = "e1"]>>
    /\ messages = <<>>
    /\ calls = <<>>
    /\ appointments = <<>>
    /\ events = <<>>
    /\ logs = {}
    /\ jobs = EmptyBag
    /\ web = [r \in 1..MaxWebhooks |-> IdleWeb]
    /\ cb = [c \in 1..MaxCallbacks |-> IdleCb]
    /\ bk = [b \in 1..MaxBookings |-> IdleBk]
    /\ runs = [w \in 1..MaxRuns |-> IdleRun]
    /\ failed_transitions = <<>>
    /\ dialect = "postgresql"
    /\ reminder_jobs = {}
    /\ rem = [n \in 1..MaxReminderRuns |-> IdleRem]
    /\ upd = [u \in 1..MaxUpdates |-> IdleUpd]
    /\ rq = [x \in 1..MaxPerforms |-> IdlePerform]

\* concurrent update deliveries for the stored Lead
NextUpdate == \E r \in 1..MaxWebhooks : HelenaStep(r, UpdatePayloads)

SpecUpdate == InitUpdate /\ [][NextUpdate]_vars

\* a Lead is created by the CRM before, between or after voice callbacks,
\* one request at a time
NextLookup ==
    \/ (web[1].pc # "idle" \/ Quiet) /\ HelenaStep(1, ReminderLeadPayloads)
    \/ \E c \in 1..MaxCallbacks : (cb[c].pc # "idle" \/ Quiet) /\ VapiStep(c)

SpecLookup == Init /\ [][NextLookup]_vars

\* deliveries of one lead_created payload under one idempotency key
FailPayloads ==
    {p \in IngestPayloads : p.event_type = "lead_created" /\ p.idempotency_key = "k1" /\ p.tags = <<>>}

\* callbacks of the lead's call: its start, its end, its end with metadata
FailCallbacks ==
    {p \in VapiPayloads : /\ p.phone_number = "p1" /\ p.function_calls = <<>>
                          /\ ~p.transcript.present /\ p.event_type # "call-ringing"}

\* all webhook deliveries have ended
WebQuiet == \A r \in 1..MaxWebhooks : web[r].pc \in {"idle", "done"}

\* a delivery overlaps the one before it only: it starts when all earlier
\* deliveries but the last have ended
Overlapping(r) == web[r].pc # "idle" \/ \A q \in 1..MaxWebhooks : q + 1 < r => web[q].pc = "done"

\* overlapping deliveries of the same payload, then voice callbacks one at a time
NextFail ==
    \/ (\A c \in 1..MaxCallbacks : cb[c].pc = "idle")
          /\ \E r \in 1..MaxWebhooks : Overlapping(r) /\ HelenaStep(r, FailPayloads)
    \/ WebQuiet /\ \E c \in 1..MaxCallbacks : (cb[c].pc # "idle" \/ Quiet) /\ VapiStepOf(c, FailCallbacks)

SpecFail == Init /\ [][NextFail]_vars

\* payloads without an idempotency key: a lead creation and messages, with and
\* without timestamp, with and without the top-level helena_lead_id
RedeliverPayloads ==
    { [HelenaPayload(e, NoStr, t, TRUE, NoStr, <<>>)
          EXCEPT !.helena_lead_id = h, !.helena_message_id = m] :
        e \in {"lead_created", "message_received"}, t \in {NoDate, 1},
        h \in {"h1", NoStr}, m \in {"m1", "m2"} }
    \ {p \in HelenaPayloads \cup {[q EXCEPT !.timestamp = NoDate] : q \in HelenaPayloads} :
          p.event_type = "lead_created" /\ p.helena_message_id = "m2"}

\* deliveries one after the other: a delivery arrives when the ones before it
\* have been answered and their background tasks have run
NextRedeliver ==
    \E r \in 1..MaxWebhooks : (web[r].pc # "idle" \/ WebQuiet) /\ HelenaStep(r, RedeliverPayloads)

SpecRedeliver == Init /\ [][NextRedeliver]_vars

\* the function calls, texts, sentiments and durations of a call-ended callback
CallbackCall == [name |-> "schedule_callback", result |-> TRUE]

OutcomeCalls ==
    {<<>>, <<BookingCall>>, <<CallbackCall>>,
     <<[BookingCall EXCEPT !.result = FALSE]>>,
     <<CallbackCall, BookingCall>>,
     <<[BookingCall EXCEPT !.result = FALSE], CallbackCall>>,
     <<[BookingCall EXCEPT !.name = "transfer_call"], BookingCall>>}

Phrases ==
    {"When can I come in", "book appointment", "call me back", "not interested",
     "tell me more"}

OutcomeTexts == {text \in SUBSET Phrases : Cardinality(text) <= MaxPhrases}

OutcomePayloads ==
    { VapiPayload("call-ended", "p1", f, t, d, FALSE) :
        f \in OutcomeCalls,
        t \in {NoTranscript} \cup {TranscriptText(text, s) :
                                     text \in OutcomeTexts,
                                     s \in {NoStr, "positive", "negative"}},
        d \in {NoDate, 0, 5, 60} }

\* the Lead is created, then one call-ended callback reports its call
NextOutcome ==
    \/ HelenaStep(1, ReminderLeadPayloads)
    \/ (cb[1].pc # "idle" \/ (Quiet /\ web[1].pc = "done")) /\ VapiStepOf(1, OutcomePayloads)

SpecOutcome == Init /\ [][NextOutcome]_vars

\* a tag-add and a stage-update delivery for the stored Lead
TagStagePayloads ==
    {HelenaPayload("lead_stage_changed", NoStr, 1, TRUE, "qualified", <<>>),
     HelenaPayload("lead_tag_added", NoStr, 1, TRUE, NoStr, <<"urgent">>)}

\* a Lead the CRM created earlier is stored, without tags or with one
InitTagStage ==
    /\ \E tags \in {<<>>, <<"vip">>} :
          leads = <<[CreatedLead(HelenaPayload("lead_created", NoStr, 1, TRUE, NoStr, <<>>))
                       EXCEPT !.tags = tags]>>
    /\ messages = <<>>
    /\ calls = <<>>
    /\ appointments = <<>>
    /\ events = <<>>
    /\ logs = {}
    /\ jobs = EmptyBag
    /\ web = [r \in 1..MaxWebhooks |-> IdleWeb]
    /\ cb = [c \in 1..MaxCallbacks |-> IdleCb]
    /\ bk = [b \in 1..MaxBookings |-> IdleBk]
    /\ runs = [w \in 1..MaxRuns |-> IdleRun]
    /\ failed_transitions = <<>>
    /\ dialect = "postgresql"
    /\ reminder_jobs = {}
    /\ rem = [n \in 1..MaxReminderRuns |-> IdleRem]
    /\ upd = [u \in 1..MaxUpdates |-> IdleUpd]
    /\ rq = [x \in 1..MaxPerforms |-> IdlePerform]

\* concurrent tag-add and stage-update deliveries
NextTagStage == \E r \in 1..MaxWebhooks : HelenaStep(r, TagStagePayloads)

SpecTagStage == InitTagStage /\ [][NextTagStage]_vars

\* booking requests with naive and with aware dates
ZonedRequests == BookingRequests \cup {[req EXCEPT !.aware = TRUE] : req \in BookingRequests}

\* the CRM creates a Lead; bookings arrive before and after it
NextBooking ==
    \/ HelenaStep(1, ReminderLeadPayloads)
    \/ \E b \in 1..MaxBookings, req \in ZonedRequests : BookAppointment(b, req)

SpecBooking == Init /\ [][NextBooking]_vars

\* the CRM webhook, a voice callback and the booking API store pending
\* Events; the worker performs the jobs of the queues
NextPending ==
    \/ HelenaStep(1, ReminderLeadPayloads)
    \/ (cb[1].pc # "idle" \/ WebQuiet) /\ VapiStepOf(1, FailCallbacks)
    \/ \E b \in 1..MaxBookings, req \in BookingRequests : BookAppointment(b, req)
    \/ \E d \in 1..MaxPerforms : \E j \in BagToSet(jobs) : WorkerPerform(d, j)

\* a started request runs to its end and the worker keeps taking queued jobs
SpecPending == Init /\ [][NextPending]_vars /\ WF_vars(NextPending)

(***************************************************************************)
(* Properties.                                                             *)
(***************************************************************************)
EventsWithKey(key) == {i \in 1..Len(events) : events[i].idempotency_key = key}

C2_UniqueKey ==
    \A i \in 1..Len(events), j \in 1..Len(events) :
        (i # j /\ events[i].idempotency_key # NoStr)
        => events[i].idempotency_key # events[j].idempotency_key

\* two deliveries with one key both passed the duplicate lookup, and one of
\* them was stopped by the unique index
C2_Witness ==
    \E r1 \in 1..MaxWebhooks, r2 \in 1..MaxWebhooks :
        /\ r1 # r2
        /\ web[r1].key = web[r2].key
        /\ web[r1].status_code = 200 /\ web[r1].message = "Webhook processed successfully"
        /\ web[r2].error = "IntegrityError: idempotency_key"
        /\ Cardinality(EventsWithKey(web[r1].key)) = 1

\* C3: a delivery that loses the uniqueness conflict on idempotency_key is
\* answered as a success "already processed", not as an error.
C3_ConflictIsSuccess ==
    \A r \in 1..MaxWebhooks :
        web[r].error = "IntegrityError: idempotency_key"
        => /\ web[r].status_code = 200
           /\ web[r].message = "Event already processed"

\* the call-ended deliveries of one payload that were answered 200
SameCallEnded(c1, c2) ==
    /\ c1 < c2
    /\ cb[c1].payload = cb[c2].payload
    /\ cb[c1].payload.event_type = "call-ended"
    /\ cb[c1].pc = "done" /\ cb[c1].status_code = 200
    /\ cb[c2].pc = "done" /\ cb[c2].status_code = 200

CallCompletedEvents(call_id) ==
    {i \in 1..Len(events) : /\ events[i].event_type = "call_completed"
                            /\ events[i].payload_call_id = call_id}

\* C4: when the same call-ended payload (call_id X) is delivered twice,
\* concurrently or in sequence, exactly one outcome update is applied to the
\* Call and exactly one call_completed Event exists afterwards.
C4_DuplicateCallback ==
    \A c1 \in 1..MaxCallbacks, c2 \in 1..MaxCallbacks :
        SameCallEnded(c1, c2)
        => /\ calls[cb[c1].call_id].outcome_updates = 1
           /\ Cardinality(CallCompletedEvents(cb[c1].call_id)) = 1

\* the status changes the state machine allows; leaving completed, failed or
\* skipped is allowed only towards pending / processing (an external retry)
AllowedStatusChange ==
    {<<"pending", "processing">>, <<"processing", "completed">>,
     <<"processing", "failed">>, <<"pending", "skipped">>}
    \cup ({"completed", "failed", "skipped"} \X {"pending", "processing"})

\* C5: every change of Event.status follows pending -> processing,
\* processing -> completed, processing -> failed, pending -> skipped; nothing
\* moves an Event out of completed, failed or skipped except a retry
\* re-entering pending / processing.
C5_StateMachine ==
    [][\A i \in 1..Len(events) :
          events'[i].status # events[i].status
          => <<events[i].status, events'[i].status>> \in AllowedStatusChange]_vars

\* C6: every Event with status completed has processed_at set and a
\* retry_count equal to the number of times it moved to failed before.
C6_RetryCount ==
    \A i \in 1..Len(events) :
        events[i].status = "completed"
        => /\ events[i].processed_at
           /\ events[i].retry_count = failed_transitions[i]

HasAction(event, type) ==
    \E i \in 1..Len(event.triggers_actions) : event.triggers_actions[i].type = type

\* an accepted lead_created delivery that created the Lead and carried the tag urgent
UrgentLeadCreated(w) ==
    /\ w.status_code = 200
    /\ w.payload.event_type = "lead_created"
    /\ w.new_lead
    /\ Contains(w.payload.tags, "urgent")

\* C7 as stated: the Lead is created with stage new and classification hot, and
\* one lead_created Event for that lead carries initiate_hot_lead_sequence.
C7_HotLeadStageNew ==
    \A r \in 1..MaxWebhooks :
        UrgentLeadCreated(web[r])
        => /\ web[r].mem.stage = "new"
           /\ web[r].mem.classification = "hot"
           /\ events[web[r].event_id].event_type = "lead_created"
           /\ events[web[r].event_id].lead_id = web[r].lead_id
           /\ HasAction(events[web[r].event_id], "initiate_hot_lead_sequence")

\* C7 amended: the stage is the payload's stage when it names a LeadStage, new
\* otherwise; classification hot; exactly one Event (of this delivery), of
\* type lead_created, for that lead, carrying initiate_hot_lead_sequence.
C7_HotLeadCreated ==
    \A r \in 1..MaxWebhooks :
        UrgentLeadCreated(web[r])
        => /\ web[r].mem.stage = IF web[r].payload.stage \in LeadStage
                                 THEN web[r].payload.stage ELSE "new"
           /\ web[r].mem.classification = "hot"
           /\ leads[web[r].lead_id].classification = "hot"
           /\ web[r].event_id \in 1..Len(events)
           /\ events[web[r].event_id].event_type = "lead_created"
           /\ events[web[r].event_id].lead_id = web[r].lead_id
           /\ HasAction(events[web[r].event_id], "initiate_hot_lead_sequence")
           /\ Cardinality({i \in 1..Len(events) :
                             events[i].correlation_id = CorrelationWeb(r)}) = 1

C7_Witness ==
    \E r \in 1..MaxWebhooks :
        /\ UrgentLeadCreated(web[r])
        /\ web[r].payload.stage = "qualified"
        /\ leads[web[r].lead_id].stage = "qualified"

JobsOf(w, origin) == {j \in BagToSet(jobs) : j.run = w /\ j.origin = origin}

\* C8: during one process() of an Event whose triggers_actions is non-empty,
\* the type handler enqueues no job that an action of that list enqueues too
\* (so a hot lead_created Event yields one initiate-call job, not two).
C8_HandlerDoesNotDuplicate ==
    \A w \in 1..MaxRuns :
        (runs[w].status = "success"
         /\ events[runs[w].event_id].triggers_actions # <<>>)
        => \A h \in JobsOf(w, "handler"), a \in JobsOf(w, "action") :
              ~(h.func = a.func /\ h.arg = a.arg)

\* the jobs of run w that descriptor i of the Event's triggers_actions led to:
\* those of the action dispatch, and the handler's job of the same name
DescriptorJobs(w, i) ==
    {j \in JobsOf(w, "action") : j.index = i}
    \cup {j \in JobsOf(w, "handler") :
             j.func = events[runs[w].event_id].triggers_actions[i].type}

\* C9: when an Event is processed (and no enqueue fails), every descriptor of
\* its triggers_actions, whichever pipeline attached it, results in exactly
\* one enqueued job.
C9_EveryActionOneJob ==
    \A w \in 1..MaxRuns :
        (runs[w].status = "success" /\ runs[w].failures = 0)
        => \A i \in 1..Len(events[runs[w].event_id].triggers_actions) :
              Cardinality(DescriptorJobs(w, i)) = 1

\* C10: across all process() invocations on one Event, each descriptor of its
\* triggers_actions causes at most one job enqueue in total.
C10_ConsumedAtMostOnce ==
    \A e \in 1..Len(events) :
        \A i \in 1..Len(events[e].triggers_actions) :
            Cardinality({j \in BagToSet(jobs) :
                            j.origin = "action" /\ j.event_id = e /\ j.index = i}) <= 1

\* an accepted lead_stage_changed delivery that committed the Lead with stage booked
BookedByWebhook(w) ==
    /\ w.status_code = 200
    /\ w.message = "Webhook processed successfully"
    /\ w.payload.event_type = "lead_stage_changed"
    /\ w.mem.stage = "booked"

RemindersJobOf(w) ==
    \E j \in BagToSet(jobs) :
        j.run = w /\ j.func = "schedule_appointment_reminders"

\* C11: for every Lead moved to stage booked by a lead_stage_changed webhook,
\* the Event of that ingestion carries a schedule_appointment_reminders action,
\* or processing that Event enqueues a schedule_appointment_reminders job.
C11_BookedSchedulesReminders ==
    \A r \in 1..MaxWebhooks :
        BookedByWebhook(web[r])
        => \/ HasAction(events[web[r].event_id], "schedule_appointment_reminders")
           \/ \A w \in 1..MaxRuns :
                 (runs[w].event_id = web[r].event_id /\ runs[w].status = "success")
                 => RemindersJobOf(w)

\* the run_at times at which invocation r scheduled a reminder of the type
ScheduledAt(r, reminder_type) ==
    {j.run_at : j \in {x \in r.scheduled : x.reminder_type = reminder_type}}

\* C12: schedule_appointment_reminders run at time now for an appointment with
\* scheduled date D schedules the 24h reminder at exactly D-24h iff D-24h > now
\* and the 3h reminder at exactly D-3h iff D-3h > now; for a D already in the
\* past it schedules neither.
C12_ReminderTimes ==
    \A n \in 1..MaxReminderRuns :
        (rem[n].pc = "done" /\ rem[n].scheduled_date # NoDate)
        => LET d == rem[n].scheduled_date
               now == rem[n].now
           IN  /\ ScheduledAt(rem[n], "24h") = IF d - 24 > now THEN {d - 24} ELSE {}
               /\ ScheduledAt(rem[n], "3h") = IF d - 3 > now THEN {d - 3} ELSE {}
               /\ (d <= now => rem[n].scheduled = {})

\* reminder job j was scheduled before its appointment was cancelled or rescheduled
StaleReminder(j) == \E u \in 1..MaxUpdates : j \in upd[u].stale_jobs

\* C13: when a reminder job executes after its appointment was cancelled or
\* rescheduled, it re-checks the appointment and does nothing: the
\* appointment's status and reminder flags stay as they were.
C13_StaleReminderIsNoOp ==
    [][\A j \in reminder_jobs :
          (j \notin reminder_jobs' /\ StaleReminder(j))
          => appointments'[j.appointment_id] = appointments[j.appointment_id]]_vars

TagCount(lead, tag) == Cardinality({i \in 1..Len(lead.tags) : lead.tags[i] = tag})

\* runs w1 and w2 both completed the handler of the same lead_tag_added Event,
\* and w1 took the urgent branch (the one that adds contacted_urgent)
UrgentHandlerTwice(w1, w2) ==
    /\ w1 < w2
    /\ runs[w1].status = "success" /\ runs[w2].status = "success"
    /\ runs[w1].event_id = runs[w2].event_id
    /\ events[runs[w1].event_id].event_type = "lead_tag_added"
    /\ Contains(runs[w1].actions_triggered, "initiate_urgent_call")

\* C14: after the type handler ran twice on the same Event the stored entity
\* state is that of one run: the tag the handler adds (contacted_urgent) is
\* stored once, not twice (and not lost).
C14_HandlerTwice ==
    \A w1 \in 1..MaxRuns, w2 \in 1..MaxRuns :
        UrgentHandlerTwice(w1, w2)
        => TagCount(leads[events[runs[w1].event_id].lead_id], "contacted_urgent") = 1

\* an answered message_received delivery whose external lead id matched no Lead
UnresolvedMessage(w) ==
    /\ w.pc \in {"background", "done"}
    /\ w.payload.event_type = "message_received"
    /\ w.payload.data_ok
    /\ w.message # "Event already processed"
    /\ ~w.has_lead

\* C15: a message_received webhook for an external lead id with no local Lead
\* creates no Message, records an error-class log entry, reports a resolution
\* error to the caller and leaves no Event (none with a null lead reference).
C15_UnresolvedMessage ==
    \A r \in 1..MaxWebhooks :
        UnresolvedMessage(web[r])
        => /\ \A i \in 1..Len(messages) :
                 messages[i].helena_message_id # web[r].payload.helena_message_id
           /\ \E l \in logs : l.level = "error" /\ l.correlation_id = CorrelationWeb(r)
           /\ web[r].status_code # 200
           /\ \A i \in 1..Len(events) : events[i].correlation_id # CorrelationWeb(r)

\* an answered delivery whose event_type is unsupported or whose data does not
\* parse as lead / message data
InvalidPayloadAnswered(w) ==
    /\ w.pc = "done"
    /\ (w.payload.event_type \notin HelenaEventMapping \/ ~w.payload.data_ok)

\* C16: a CRM webhook whose payload fails validation is rejected with a
\* client-error (4xx) status, and it creates no Event and creates or changes no
\* Lead or Message.
C16_InvalidPayloadRejected ==
    \A r \in 1..MaxWebhooks :
        InvalidPayloadAnswered(web[r])
        => /\ web[r].status_code \in 400..499
           /\ \A i \in 1..Len(events) : events[i].correlation_id # CorrelationWeb(r)
           /\ ~web[r].has_lead /\ ~web[r].new_message

\* C17: when an exception is raised while the handler runs or while an entry
\* of triggers_actions is executed (a failing enqueue included), the run
\* reports an error, the Event ends failed with retry_count incremented and
\* error_message recorded, and an error log entry is persisted.
C17_ExceptionFailsEvent ==
    \A w \in 1..MaxRuns :
        (runs[w].pc = "done" /\ (runs[w].status = "error" \/ runs[w].failures > 0))
        => /\ runs[w].status = "error"
           /\ failed_transitions[runs[w].event_id] > 0
           /\ events[runs[w].event_id].retry_count > 0
           /\ events[runs[w].event_id].error_message
           /\ ErrorLog("orchestrator", NoStr) \in logs

\* C18: process(event_id, correlation_id) always returns a result; for an
\* event_id with no stored Event it returns status error and persists an error
\* log entry (no exception reaches the worker).
C18_NoExceptionEscapes ==
    \A w \in 1..MaxRuns :
        runs[w].pc = "done"
        => /\ runs[w].status \in {"success", "error"}
           /\ (runs[w].event_id = NoId
               => /\ runs[w].status = "error"
                  /\ ErrorLog("orchestrator", NoStr) \in logs)

OrchestrationJobs ==
    {j \in BagToSet(jobs) : j.func = "process_orchestration_event"}

\* C19: the orchestration job enqueued for a persisted Event carries the id of
\* that Event (never a null or another id) and the correlation id stored on it.
C19_JobCarriesEventId ==
    \A j \in OrchestrationJobs :
        /\ j.arg # NoId
        /\ j.arg = j.event_id
        /\ j.arg \in 1..Len(events)
        /\ j.correlation_id = events[j.event_id].correlation_id

\* C20: every job enqueued or scheduled while an Event is processed (by its
\* handler, by the execution of its triggers_actions, or by a job those
\* spawned, such as the reminder jobs) carries the correlation id of that Event.
C20_JobsCarryCorrelationId ==
    /\ \A j \in BagToSet(jobs) :
          j.origin \in {"handler", "action"}
          => j.correlation_id = events[j.event_id].correlation_id
    /\ \A j \in reminder_jobs : j.correlation_id # NoStr

\* delivery w passed the db.commit() of entity resolution
ResolutionCommitted(w) ==
    /\ w.pc \in {"persist", "background", "done"}
    /\ w.has_lead
    /\ w.error \notin {"ValueError", "IntegrityError"}

\* what that commit wrote: a new Lead, a new Message, or changed Lead columns
ResolutionMutated(w) ==
    \/ w.new_lead
    \/ w.new_message
    \/ FlushLead(w.loaded, w.loaded, w.mem) # w.loaded

\* C21: an ingestion call persists its Event and the entity mutations of
\* entity resolution atomically: once the call has ended, its mutations are
\* not committed unless its Event is.
C21_AtomicPersistence ==
    \A r \in 1..MaxWebhooks :
        (web[r].pc = "done" /\ ResolutionCommitted(web[r]) /\ ResolutionMutated(web[r]))
        => /\ web[r].event_id \in 1..Len(events)
           /\ events[web[r].event_id].correlation_id = CorrelationWeb(r)

\* delivery r was answered from the duplicate lookup
DuplicateDelivery(r) ==
    /\ web[r].pc = "done"
    /\ web[r].message = "Event already processed"

\* C22: a CRM delivery whose idempotency key is already present is a no-op:
\* it is answered with the existing Event, which stays as it was, no Lead or
\* Message is created or changed, no Event is created and no orchestration
\* job is enqueued; the delivery takes no further step.
C22_DuplicateIsNoOp ==
    [][\A r \in 1..MaxWebhooks :
        /\ (/\ web[r].pc = "idle"
            /\ web'[r].pc # "idle"
            /\ ExistingEvent(events, web'[r].key) # NoId)
           => /\ web'[r].pc = "done"
              /\ web'[r].status_code = 200
              /\ web'[r].event_id = ExistingEvent(events, web'[r].key)
              /\ ~web'[r].has_lead /\ ~web'[r].new_lead /\ ~web'[r].new_message
              /\ events' = events
              /\ leads' = leads
              /\ messages' = messages
              /\ jobs' = jobs
              /\ logs' = logs
        /\ DuplicateDelivery(r) => web'[r] = web[r]]_vars

C22_Witness ==
    \E r \in 1..MaxWebhooks :
        /\ DuplicateDelivery(r)
        /\ web[r].event_id \in 1..Len(events)
        /\ events[web[r].event_id].idempotency_key = web[r].key
        /\ events[web[r].event_id].correlation_id # CorrelationWeb(r)
        /\ Len(leads) > 0

\* orchestration jobs the worker has performed
PerformedOrchestration == {d \in 1..MaxPerforms : rq[d].func = "process_orchestration_event"}

\* C23: the orchestration job created by enqueue_orchestration_job is
\* retried at most MAX_JOB_RETRIES times, that being its retry bound, and
\* each attempt invokes process(event_id, correlation_id).
C23_OrchestrationRetries ==
    \A d \in PerformedOrchestration :
        /\ rq[d].max_retries = MAX_JOB_RETRIES
        /\ rq[d].attempts <= 1 + MAX_JOB_RETRIES
        /\ rq[d].kwargs = {}
        /\ rq[d].exc # "TypeError"

\* C24: when the call to the voice service fails inside initiate_hot_lead_call
\* the job is a failed job for the dispatcher, not a finished one.
C24_VoiceFailureFailsJob ==
    \A d \in 1..MaxPerforms :
        (rq[d].func = "initiate_hot_lead_call" /\ rq[d].voice_failed)
        => rq[d].status = "failed"

\* the runs of initiate_hot_lead_call for Lead l the worker has performed
HotLeadCallRuns(l) ==
    {d \in 1..MaxPerforms : rq[d].func = "initiate_hot_lead_call" /\ rq[d].arg = l}

\* the Call records of the outreach to Lead l
OutreachCalls(cs, l) ==
    {i \in 1..Len(cs) : cs[i].lead_id = l /\ cs[i].status = "initiated"}

CallOutcomeEvents(action_type) ==
    {i \in 1..Len(events) :
        /\ events[i].event_type = "call_completed"
        /\ Len(events[i].triggers_actions) = 1
        /\ events[i].triggers_actions[1].type = action_type}

\* a run of process_orchestration_event on Event i has ended with success
Processed(i) ==
    \E w \in 1..MaxRuns :
        runs[w].pc = "done" /\ runs[w].event_id = i /\ runs[w].status = "success"

\* a job running func after hours was enqueued while Event i was processed
ScheduledFor(i, func, hours) ==
    \E j \in BagToSet(jobs) :
        j.event_id = i /\ j.origin # "ingest" /\ j.func = func /\ j.delay = hours

\* C26: processing the call_completed Event of a call-ended callback
\* schedules the action of the Call's outcome: appointment_booked the
\* appointment-booking job, callback_requested a callback job 24 hours later,
\* not_interested the classification update.
C26_OutcomeActionScheduled ==
    /\ \A i \in CallOutcomeEvents("process_appointment_booking") :
          Processed(i) => ScheduledFor(i, "process_call_appointment_booking", 0)
    /\ \A i \in CallOutcomeEvents("schedule_callback") :
          Processed(i) => ScheduledFor(i, "initiate_callback", 24)
    /\ \A i \in CallOutcomeEvents("update_lead_classification") :
          Processed(i) => ScheduledFor(i, "update_lead_classification", 0)

\* the action types for which execute_triggered_action has an enqueue branch
ExecutableTypes ==
    {"initiate_hot_lead_sequence", "trigger_handoff",
     "schedule_appointment_reminders", "process_inbound_message"}

Executable(acts) == SelectSeq(acts, LAMBDA a : a.type \in ExecutableTypes)

HasUnknown(acts) == \E i \in 1..Len(acts) : acts[i].type \notin ExecutableTypes

\* C27: an unknown action type in an Event's triggers_actions is skipped
\* without failing the Event: every other entry is executed, in list order
\* (its job enqueued unless the enqueue itself raises), no job is enqueued
\* for the unknown entry, and the Event is completed.
C27_UnknownActionSkipped ==
    [][\A w \in 1..MaxRuns :
        (/\ runs[w].pc = "actions"
         /\ runs'[w].pc # "actions"
         /\ HasUnknown(events[runs[w].event_id].triggers_actions))
        => LET eid == runs[w].event_id
               acts == events[eid].triggers_actions
               others == Executable(acts)
               enqueued == {j \in BagToSet(jobs') : j.run = w /\ j.origin = "action"}
           IN  /\ events'[eid].status = "completed"
               /\ runs'[w].status = "success"
               /\ runs'[w].actions_triggered =
                     runs[w].actions_triggered \o [n \in 1..Len(others) |-> others[n].type]
               /\ \A j \in enqueued : acts[j.index].type \in ExecutableTypes
               /\ Cardinality(enqueued) + runs'[w].failures = Len(others)]_vars

C27_Witness ==
    \E w \in 1..MaxRuns :
        /\ runs[w].pc = "done"
        /\ runs[w].status = "success"
        /\ runs[w].failures = 0
        /\ events[runs[w].event_id].status = "completed"
        /\ [i \in 1..Len(events[runs[w].event_id].triggers_actions) |->
                events[runs[w].event_id].triggers_actions[i].type]
              = <<"initiate_hot_lead_sequence", "send_booking_confirmation", "trigger_handoff">>
        /\ Cardinality(JobsOf(w, "action")) = 2

\* the event types the examples of types without a handler name
NoHandlerTypes ==
    {"lead_updated", "message_sent", "call_initiated", "appointment_confirmed"}

\* C28: processing an Event whose type has no handler enqueues no handler
\* job, changes no Lead, Message, Call or Appointment, and ends with the
\* Event completed.
C28_NoHandlerCompletes ==
    [][\A w \in 1..MaxRuns :
        (/\ runs[w].pc \in {"handler", "actions"}
         /\ runs'[w] # runs[w]
         /\ events[runs[w].event_id].event_type \in NoHandlerTypes)
        => /\ leads' = leads
           /\ messages' = messages
           /\ calls' = calls
           /\ appointments' = appointments
           /\ {j \in BagToSet(jobs') : j.run = w /\ j.origin = "handler"} = {}
           /\ runs[w].pc = "handler" => runs'[w].pc = "actions"
           /\ runs[w].pc = "actions"
                 => /\ runs'[w].pc = "done"
                    /\ runs'[w].status = "success"
                    /\ events'[runs[w].event_id].status = "completed"]_vars

C28_Witness ==
    \E w \in 1..MaxRuns :
        /\ runs[w].pc = "done"
        /\ runs[w].status = "success"
        /\ events[runs[w].event_id].event_type = "lead_updated"
        /\ events[runs[w].event_id].source = "helena"
        /\ events[runs[w].event_id].lead_id \in 1..Len(leads)
        /\ events[runs[w].event_id].status = "completed"
        /\ JobsOf(w, "handler") = {}

\* delivery r is an update of a stored Lead about to commit
UpdateCommit(r) ==
    /\ web[r].pc = "commit"
    /\ web[r].has_lead
    /\ ~web[r].new_lead
    /\ web[r].payload.event_type \in HelenaLeadEvents \ {"lead_created"}

\* C29: an update webhook for an existing Lead leaves every field absent
\* from the payload (here email, phone, stage, tags and each key of
\* custom_fields) at its stored value, and a field it changes gets the
\* payload's value.
C29_UpdateKeepsAbsentFields ==
    [][\A r \in 1..MaxWebhooks :
        (UpdateCommit(r) /\ web'[r].pc = "persist")
        => LET p == web[r].payload
               old == leads[web[r].lead_id]
               new == leads'[web[r].lead_id]
           IN  /\ p.email = NoStr => new.email = old.email
               /\ new.email # old.email => new.email = p.email
               /\ p.phone = NoStr => new.phone = old.phone
               /\ new.phone # old.phone => new.phone = p.phone
               /\ p.stage = NoStr => new.stage = old.stage
               /\ new.stage # old.stage => new.stage = Lower(p.stage)
               /\ p.tags = <<>> => new.tags = old.tags
               /\ \A k \in (old.custom_fields \cup new.custom_fields) \ p.custom_fields :
                     k \in old.custom_fields <=> k \in new.custom_fields]_vars

\* callback c was rejected with 404
RejectedCallback(c) == cb[c].pc = "done" /\ cb[c].status_code = 404

\* C30: a voice callback for a call id with no stored Call creates the Call
\* only when the payload's phone number matches a stored Lead, for that Lead;
\* with no phone number or no matching Lead it is answered 404 and creates no
\* Call and no Event (nor a log or a job), and takes no further step.
C30_CallOnlyForMatchingLead ==
    [][\A c \in 1..MaxCallbacks :
        /\ (/\ cb[c].pc = "idle"
            /\ cb'[c].pc # "idle"
            /\ \A i \in 1..Len(calls) : calls[i].vapi_call_id # cb'[c].payload.call_id)
           => LET p == cb'[c].payload
                  matching == {i \in 1..Len(leads) :
                                  p.phone_number # NoStr /\ leads[i].phone = p.phone_number}
              IN  IF matching # {}
                  THEN cb'[c].pc = "create" /\ cb'[c].lead_id \in matching
                  ELSE /\ RejectedCallback(c)'
                       /\ calls' = calls
                       /\ events' = events
                       /\ logs' = logs
                       /\ jobs' = jobs
        /\ (cb[c].pc = "create" /\ cb'[c].pc # "create" /\ calls' # calls)
           => /\ calls' = Append(calls, [NoCall EXCEPT !.vapi_call_id = cb[c].payload.call_id,
                                                       !.lead_id = cb[c].lead_id])
              /\ leads[cb[c].lead_id].phone = cb[c].payload.phone_number
        /\ (cb[c].pc # "create" /\ cb'[c] # cb[c]) => Len(calls') = Len(calls)
        /\ RejectedCallback(c) => cb'[c] = cb[c]]_vars

C30_Witness ==
    \E c1 \in 1..MaxCallbacks, c2 \in 1..MaxCallbacks :
        /\ RejectedCallback(c1)
        /\ cb[c1].payload.phone_number = "p1"
        /\ c1 \in cb[c2].preceded
        /\ cb[c2].pc = "done"
        /\ cb[c2].status_code = 200
        /\ cb[c2].call_id = 1
        /\ Len(calls) = 1
        /\ calls[1].lead_id = 1
        /\ \A i \in 1..Len(events) : events[i].correlation_id # CorrelationCb(c1)

\* the exceptions of the model raised after entity resolution: the Event's
\* commit (CRM webhook), the Call update (voice callback)
RaisedAfterResolution(error) == error \in {"IntegrityError: idempotency_key", "AttributeError"}

RawPayload(w) == IF w.utcnow # NoDate THEN [w.payload EXCEPT !.timestamp = NoDate] ELSE w.payload

\* delivery q repeats, without an idempotency key, the payload of delivery r,
\* which had been ingested (its Event stored) when q arrived
Redelivery(r, q) ==
    /\ r \in web[q].preceded
    /\ web[r].event_id # NoId /\ web[r].status_code = 200
    /\ RawPayload(web[q]) = RawPayload(web[r])
    /\ RawPayload(web[q]).idempotency_key = NoStr

\* C32: a redelivery of a payload without idempotency key, with or without
\* timestamp, obtains the key of the first delivery and is deduplicated.
C32_RedeliveryDeduplicated ==
    \A r, q \in 1..MaxWebhooks :
        Redelivery(r, q) /\ web[q].pc = "done"
        => /\ web[q].key = web[r].key
           /\ web[q].message = "Event already processed"
           /\ web[q].event_id = web[r].event_id

\* a keyword of the list occurs in the text, upper or lower case
KeywordSaid(keywords, text) ==
    \E k \in keywords, phrase \in text : Lower(k) \in PhraseParts(Lower(phrase))

\* the outcome by the stated priority: function calls, appointment keywords,
\* callback keywords, not-interested keywords, interested keywords,
\* sentiment, a duration under 10 seconds, successful
PriorityOutcome(d) ==
    IF FunctionCallOutcome(d.function_calls) # NoStr
    THEN FunctionCallOutcome(d.function_calls)
    ELSE IF d.transcript.present /\ KeywordSaid(appointment_keywords, d.transcript.text)
    THEN "appointment_booked"
    ELSE IF d.transcript.present /\ KeywordSaid(callback_keywords, d.transcript.text)
    THEN "callback_requested"
    ELSE IF d.transcript.present /\ KeywordSaid(not_interested_keywords, d.transcript.text)
    THEN "not_interested"
    ELSE IF d.transcript.present /\ KeywordSaid(interest_keywords, d.transcript.text)
    THEN "interested"
    ELSE IF d.transcript.present /\ d.transcript.sentiment = "negative" THEN "not_interested"
    ELSE IF d.transcript.present /\ d.transcript.sentiment = "positive" THEN "interested"
    ELSE IF d.duration # NoDate /\ d.duration < 10 THEN "no_answer"
    ELSE "successful"

\* C33: the outcome stored for a call-ended callback is the one the priority
\* order gives: function calls, then the transcript's keywords and sentiment,
\* then the duration; it is never null.
C33_OutcomePriority ==
    \A c \in 1..MaxCallbacks :
        /\ cb[c].payload \in OutcomePayloads
        /\ cb[c].pc \in {"persist", "background", "done"}
        /\ cb[c].status_code # 404
        => /\ calls[cb[c].call_id].outcome # NoStr
           /\ calls[cb[c].call_id].outcome = PriorityOutcome(cb[c].payload)

\* deliveries r and q were both ingested and ran concurrently: neither had
\* been answered when the other arrived
ConcurrentlyIngested(r, q) ==
    /\ r # q
    /\ Answered(web[r]) /\ web[r].status_code = 200
    /\ Answered(web[q]) /\ web[q].status_code = 200
    /\ r \notin web[q].preceded /\ q \notin web[r].preceded

\* C34: after a tag-add and a stage-update for the same Lead ran concurrently,
\* the stored Lead has the tag and the new stage.
C34_TagAndStageBothStored ==
    \A r, q \in 1..MaxWebhooks :
        /\ ConcurrentlyIngested(r, q)
        /\ web[r].payload.event_type = "lead_tag_added"
        /\ web[q].payload.event_type = "lead_stage_changed"
        /\ web[r].lead_id = web[q].lead_id
        => /\ \A i \in 1..Len(web[r].payload.tags) :
                 has_tag(leads[web[r].lead_id], web[r].payload.tags[i])
           /\ leads[web[q].lead_id].stage = Lower(web[q].payload.stage)

\* booking b arrives in this step
BookingArrives(b) == bk[b].pc = "idle" /\ bk'[b].pc # "idle"

\* C35: a booking request whose scheduled_date is not in the future is
\* answered 422, one for a lead id that does not exist is answered 404, and
\* neither creates an Appointment or an Event.
C35_BadBookingRejected ==
    [][\A b \in 1..MaxBookings :
        BookingArrives(b)
        => LET req == bk'[b].request
           IN  /\ req.scheduled_date <= BookingNow
                  => /\ bk'[b].status_code = 422
                     /\ appointments' = appointments /\ events' = events
               /\ (req.scheduled_date > BookingNow /\ req.lead_id \notin 1..Len(leads))
                  => /\ bk'[b].status_code = 404
                     /\ appointments' = appointments /\ events' = events]_vars

\* Event e is stored with status pending
PendingEvent(e) == e \in 1..Len(events) /\ events[e].status = "pending"

\* an orchestration job for Event e is queued or was taken by the worker
OrchestrationEnqueued(e) ==
    \/ \E j \in BagToSet(jobs) : j.func = "process_orchestration_event" /\ j.arg = e
    \/ \E d \in 1..MaxPerforms :
          rq[d].func = "process_orchestration_event" /\ rq[d].arg = e

\* C36: every Event stored with status pending eventually has an
\* orchestration job enqueued for it and, the worker being scheduled fairly,
\* eventually leaves pending.
C36_PendingEventuallyProcessed ==
    \A e \in 1..(MaxWebhooks + MaxCallbacks + MaxBookings) :
        /\ PendingEvent(e) ~> OrchestrationEnqueued(e)
        /\ PendingEvent(e) ~> ~PendingEvent(e)

\* job j was enqueued while processing a CRM lead_stage_changed Event, to
\* schedule appointment reminders
BookedRemindersJob(j) ==
    /\ j.func = "schedule_appointment_reminders"
    /\ j.event_id \in 1..Len(events)
    /\ events[j.event_id].source = "helena"
    /\ events[j.event_id].event_type = "lead_stage_changed"

\* C37: a schedule_appointment_reminders job enqueued for a CRM
\* lead_stage_changed Event (by the handler or by the Event's action) names an
\* existing Appointment of the Event's lead.
C37_RemindersJobNamesAppointment ==
    \A j \in BagToSet(jobs) :
        BookedRemindersJob(j)
        => /\ j.arg # NoId
           /\ j.arg \in 1..Len(appointments)
           /\ appointments[j.arg].lead_id = events[j.event_id].lead_id

\* the initiate_urgent_call jobs enqueued for lead l
UrgentCallJobs(l) ==
    {j \in BagToSet(jobs) : j.func = "initiate_urgent_call" /\ j.arg = l}

\* C38: for any lead at most one initiate_urgent_call job is ever enqueued,
\* however often and however interleaved its lead_tag_added Events are
\* processed.
C38_OneUrgentCall ==
    \A l \in 1..Len(leads) :
        /\ Cardinality(UrgentCallJobs(l)) <= 1
        /\ \A j \in UrgentCallJobs(l) : CopiesIn(j, jobs) = 1

\* deliveries r and q carry no idempotency key and describe different
\* occurrences: two messages with different helena_message_id (with or
\* without the top-level helena_lead_id)
DifferentOccurrences(r, q) ==
    /\ r # q
    /\ RawPayload(web[r]).idempotency_key = NoStr
    /\ RawPayload(web[q]).idempotency_key = NoStr
    /\ web[r].payload.event_type = "message_received"
    /\ web[q].payload.event_type = "message_received"
    /\ web[r].payload.helena_message_id # web[q].payload.helena_message_id

\* C39: two deliveries without idempotency key that describe different
\* occurrences are not deduplicated against each other: each is ingested and
\* has its own Event.
C39_DifferentOccurrencesKept ==
    \A r, q \in 1..MaxWebhooks :
        /\ DifferentOccurrences(r, q)
        /\ web[r].pc = "done" /\ web[q].pc = "done"
        => /\ web[r].message = "Webhook processed successfully"
           /\ web[q].message = "Webhook processed successfully"
           /\ web[r].event_id # web[q].event_id

\* CallStatus values after which the call is over
TerminalCallStatus == {"completed", "failed"}

\* C40: once a Call has status completed or failed, no later voice callback
\* for it moves the status back to a non-terminal value.
C40_TerminalCallStaysTerminal ==
    [][\A i \in 1..Len(calls) :
        calls[i].status \in TerminalCallStatus
        => calls'[i].status \in TerminalCallStatus]_vars

====
